---- MODULE Spec2Model ----
(***************************************************************************)
(* A model of mumble, a serverless ActivityPub server.  The module holds   *)
(* several specifications over one set of variables:                       *)
(*   SpecFollow   the user table, its change stream, the user statistics   *)
(*                maintainer and the dispatch of inbound Follow / Undo;    *)
(*   SpecInbound  the inbox endpoint (receive_inbound_activity);           *)
(*   SpecReply    the object table, its change stream, the object          *)
(*                statistics maintainer and the dispatch of Create;        *)
(*   SpecExpand   the expansion of the recipients of an outbound activity; *)
(*   SpecPipeline the classification of errors by the pipeline steps;      *)
(*   SpecOutbox   push_staged_activity and update_last_activity;           *)
(*   SpecPages    the paginated collections (outbox, followers, replies);  *)
(*   SpecFinger   the WebFinger endpoint;                                  *)
(*   SpecParallel concurrent invocations of deliver_activity;              *)
(*   SpecSignature, SpecKeys  the signature and key functions;             *)
(*   SpecDomain, SpecUndo, SpecCreate  the dispatch of inbound activities  *)
(*                that name objects of other hosts or other actors;        *)
(*   SpecWalk, SpecWalkToEnd  the generator of the activities of a user,   *)
(*                query by query;                                          *)
(*   SpecEnumerate  the generators of followers and of replies;            *)
(*   SpecCrawl    a client that follows the next links of follower pages;  *)
(*   SpecStatistics  successive invocations of the statistics maintainers  *)
(*                in one process, on change records of any key.            *)
(* Strings the code builds by concatenation (keys, URIs) are tuples or     *)
(* records of their parts, and the parsers take them apart again.          *)
(***************************************************************************)
EXTENDS Integers, Sequences, FiniteSets, TLC

VARIABLES
    followerItems,   \* user table: follower items, keyed by <<pk, sk>>
    followerCount,   \* user table: followerCount of each user record
    followingCount,  \* user table: followingCount of each user record
    userStream,      \* change-stream records of the user table not yet consumed
    staging,         \* objects store: blobs under staging/users/{u}/
    pc,              \* translate_inbound_activity: position of each invocation
    job,             \* translate_inbound_activity: the event of each invocation
    res,             \* translate_inbound_activity: what each invocation logged
    stagedKey,       \* translate_inbound_activity: keys of the blobs it saved
    raced,           \* history: the invocation's edge was deleted by another one
    track,           \* history: one Follow-then-Undo episode being observed
    dispatched,      \* history: number of inbox blobs dispatched so far
    inboxBlobs,      \* objects store: blobs under inbox/users/{u}/
    quarantineBlobs, \* quarantine bucket: payloads put by the inbox endpoint
    rpc,             \* receive_inbound_activity: position of the invocation
    request,         \* receive_inbound_activity: the event and what was derived
    response,        \* receive_inbound_activity: how the last invocation ended
    received,        \* history: number of requests received so far
    postItems,       \* object table: replyCount of the metadata item of each post
    replyItems,      \* object table: reply items under the partitions of posts
    objectStream,    \* change-stream records of the object table not yet consumed
    repliesAdded,    \* history: reply objects whose Create was dispatched
    lastCreate,      \* history: how the last dispatch of a Create ended
    recipients,      \* expand_recipients: RecipientCollector.recipients
    excluded,        \* expand_recipients: RecipientCollector._excluded
    collected,       \* expand_recipients: RecipientCollector._collected
    lastExpand,      \* history: the last invocation of expand_recipients
    expansions,      \* history: number of invocations of expand_recipients
    outboxBlobs,     \* objects store: blobs under outbox/users/{u}/
    lastDeliver,     \* history: the last invocation of deliver_activity
    lastFailure,     \* history: what stopped the last dispatch of a Create
    deliveries,      \* history: number of invocations of deliver_activity
    delivery,        \* deliver_activity: position and event of each invocation
    inboxPosts,      \* requests deliver_activity made to inboxes
    activityItems,   \* object table: activity items, keyed by <<pk, sk>>
    userTimes,       \* user table: createdAt, updatedAt, lastActivityAt
    now,             \* the clock read by datetime.now and current_yyyymmdd_...
    lastPut,         \* history: the last invocation of push_staged_activity
    lastUpdate,      \* history: the last invocation of update_last_activity
    lastPage,        \* history: the last answer to a collection request
    pushes,          \* history: number of invocations of push_staged_activity
    lastFinger,      \* history: the last WebFinger request and its answer
    lastSign,        \* history: the last headers signed, and their verification
    lastKey,         \* history: the last activity key or cursor converted
    walk,            \* enumerate_user_activities: the position of the generator
    lastRun,         \* history: the last generator of followers or replies run
    crawl,           \* a client that follows the next links of follower pages
    kept             \* history: what the statistics maintainers accumulated

followVars == <<followerItems, followerCount, followingCount, userStream,
                staging, pc, job, res, stagedKey, raced, track, dispatched>>

inboundVars == <<inboxBlobs, quarantineBlobs, rpc, request, response, received>>

replyVars == <<postItems, replyItems, objectStream, repliesAdded, lastCreate>>

expandVars == <<recipients, excluded, collected, lastExpand, expansions>>

pipeVars == <<outboxBlobs, lastDeliver, lastFailure, deliveries, delivery,
              inboxPosts>>

outboxVars == <<activityItems, userTimes, now, lastPut, lastUpdate, lastPage,
                pushes, lastFinger>>

libVars == <<lastSign, lastKey, walk, lastRun, crawl, kept>>

vars == <<followVars, inboundVars, replyVars, expandVars, pipeVars, outboxVars,
          libVars>>

----------------------------------------------------------------------------
\* Bounds of the model.

\* PAGE_SIZE of get_followers where a client follows the links: 1 up to
\* this size, and the default.
CrawlPageSize == 2
\* Requests of one client that follows the links.
MaxCrawl == 8
\* Change records the streams of the two tables are fed in one behaviour.
MaxFed == 3

\* Inbox blobs dispatched in one behaviour.
MaxDispatch == 3
\* Requests the inbox endpoint receives in one behaviour.
MaxRequests == 1
\* Change-stream records of the object table that may be pending at once.
MaxPending == 2
\* Records handed to one invocation of a statistics maintainer.
MaxBatch == 2
\* Invocations of expand_recipients in one behaviour.
MaxExpansions == 2
\* Invocations of deliver_activity in one behaviour.
MaxDeliveries == 1

\* Concurrent invocations of translate_inbound_activity.
Procs == {"p1", "p2"}
\* Local accounts (user records of the user table).
Users == {"alice", "bob"}
\* Accounts on other servers.
RemoteActors == {"r1", "r2"}
\* Activity ids a remote server may give its Follow.
FollowIds == {"x"}

DOMAIN_NAME == "mumble.example"
REMOTE_HOST == "remote.example"

----------------------------------------------------------------------------
\* libmumble.id_scheme and the key functions of libmumble.user_table.

make_user_id(domain, username) == [host |-> domain, path |-> <<"users", username>>]

RemoteId(r) == [host |-> REMOTE_HOST, path |-> <<"users", r>>]

\* The result is <<ok, domain, username>>; ok is FALSE where the code raises
\* ValueError.  The host is returned but not compared with any domain.
parse_user_id(user_id) ==
    IF user_id.host # "" /\ Len(user_id.path) = 2 /\ user_id.path[1] = "users"
    THEN <<TRUE, user_id.host, user_id.path[2]>>
    ELSE <<FALSE, "", "">>

get_username_from_user_id(user_id) == parse_user_id(user_id)[3]

USER_PK_PREFIX == "user:"
FOLLOWER_PK_PREFIX == "follower:"
FOLLOWEE_PK_PREFIX == "followee:"

make_user_key(username) == [pk |-> <<USER_PK_PREFIX, username>>, sk |-> "reserved"]

make_follower_partition_key(username) == <<FOLLOWER_PK_PREFIX, username>>

make_follower_key(username, follower_id) ==
    [pk |-> make_follower_partition_key(username), sk |-> follower_id]

\* <<ok, username>>; ok is FALSE where the code raises ValueError.
parse_follower_partition_key(pk) ==
    IF pk[1] = FOLLOWER_PK_PREFIX THEN <<TRUE, pk[2]>> ELSE <<FALSE, "">>

parse_followee_partition_key(pk) ==
    IF pk[1] = FOLLOWEE_PK_PREFIX THEN <<TRUE, pk[2]>> ELSE <<FALSE, "">>

----------------------------------------------------------------------------
\* libactivitypub.activity: the activities the inbox receives.

\* A Follow as the remote server serialised it.
FollowActivity(id, actor, object, ctx) ==
    [type |-> "Follow", id |-> id, actor |-> actor, object |-> object,
     context |-> ctx]

\* An Undo carrying the undone activity inline.
UndoActivity(actor, undone) ==
    [type |-> "Undo", actor |-> actor, object |-> undone, context |-> TRUE]

Follows ==
    { FollowActivity(i, RemoteId(r), make_user_id(DOMAIN_NAME, u), c) :
        i \in FollowIds, r \in RemoteActors, u \in Users, c \in {TRUE} }

Undos == { UndoActivity(f.actor, f) : f \in Follows }

\* The Follows of alice, and the Undos of them any remote actor may sign and
\* send: the inbox endpoint lets an activity in when its actor is the signer.
FollowsOfAlice == { f \in Follows : f.object = make_user_id(DOMAIN_NAME, "alice") }

UndosByAnyone ==
    { UndoActivity(RemoteId(r), f) : r \in RemoteActors, f \in FollowsOfAlice }

\* Ids a remote server may name as the object of a Follow: a local user, the
\* user of the same name on another host, and an id that is no user id.
FollowedIds ==
    { make_user_id(DOMAIN_NAME, u) : u \in Users }
      \cup { make_user_id(REMOTE_HOST, "alice"),
             [host |-> DOMAIN_NAME, path |-> <<"users", "alice", "posts">>] }

FollowsOfAnyone ==
    { FollowActivity(i, RemoteId("r1"), o, TRUE) : i \in FollowIds, o \in FollowedIds }

\* DictObject.to_dict: with_context = FALSE drops "@context" from the copy.
to_dict(activity, with_context) ==
    IF with_context THEN activity ELSE [activity EXCEPT !.context = FALSE]

followed_id(follow) == follow.object

\* An Accept that names the follower, not the followed user, as its actor.
Accept_by_requester(actor_id, activity) ==
    [type |-> "Accept", actor |-> activity.actor,
     object |-> to_dict(activity, FALSE)]

\* Accept.create: no id is given to the response.
Accept_create(actor_id, activity) ==
    [type |-> "Accept", actor |-> actor_id,
     object |-> to_dict(activity, FALSE)]

NoJob == [username |-> "", activity |-> [type |-> "none"]]

----------------------------------------------------------------------------
\* The user table (DynamoDB): items, conditional writes and the change stream.

FollowerItem(key, follow) ==
    [pk |-> key.pk, sk |-> key.sk, followerId |-> follow.actor,
     followActivityId |-> follow.id]

ItemsAt(items, key) == { it \in items : it.pk = key.pk /\ it.sk = key.sk }

\* put_item replaces whatever item has the same primary key.
put_item(items, item) == (items \ ItemsAt(items, item)) \cup {item}

delete_item(items, key) == items \ ItemsAt(items, key)

StreamRecord(eventName, key) == [eventName |-> eventName, Keys |-> key]

\* Followers of a user: the sort keys under the user's follower partition.
Followers(items, username) ==
    { it.sk : it \in { i \in items : i.pk = make_follower_partition_key(username) } }

----------------------------------------------------------------------------
\* translate_inbound_activity: one invocation per inbox blob.  An invocation
\* runs up to and including its conditional write to the user table in one
\* step, and from there to its return in a second one: the blob it saves under
\* a fresh staging key is read by no other step of this specification.
\* job, res and stagedKey keep what the last invocation of a container did
\* until the container takes its next event.

NoTrack == [st |-> "off", follow |-> NoJob, user |-> "", prior |-> 0, had |-> FALSE]

Returned(p) == pc[p] = "idle"

\* No invocation is running and the statistics maintainer has caught up.
Quiet == (\A p \in Procs : Returned(p)) /\ userStream = <<>>

\* The history variable follows one episode on one user: a Follow dispatched
\* from a quiet system, then the Undo of that Follow dispatched after it has
\* returned.  Any other dispatch on the same user ends the episode.
TrackOnStart(username, activity) ==
    IF activity.type = "Follow" /\ Quiet
    THEN [st |-> "follow", follow |-> activity, user |-> username,
          prior |-> followerCount[username],
          had |-> ItemsAt(followerItems,
                          make_follower_key(username, activity.actor)) # {}]
    ELSE IF activity.type = "Undo" /\ track.st = "follow"
            /\ track.follow = activity.object /\ track.user = username
            /\ \A q \in Procs : Returned(q)
    THEN [track EXCEPT !.st = "undo"]
    ELSE IF track.user = username THEN NoTrack
    ELSE track

\* translate_activity: the response of the visitor, if any, is saved under a
\* fresh key of the staging outbox of the inbox owner.
save_object(blobs, username, obj) ==
    Append(blobs, [username |-> username, object |-> obj])

\* A put without a condition.
put_unconditionally(items, key) == TRUE

\* The condition of the put in add_user_follower.
follower_put_condition(items, key) == ItemsAt(items, key) = {}

\* add_user_follower and remove_user_follower raise ValueError when the user
\* the Follow names is not the owner of the inbox; the invocation fails.
fails_ownership(username, follow) ==
    get_username_from_user_id(followed_id(follow)) # username

dispatch_rejected(p, username, activity) ==
    /\ pc[p] = "idle"
    /\ dispatched < MaxDispatch
    /\ fails_ownership(username,
                       IF activity.type = "Undo" THEN activity.object ELSE activity)
    /\ dispatched' = dispatched + 1
    /\ job' = [job EXCEPT ![p] = [username |-> username, activity |-> activity]]
    /\ res' = [res EXCEPT ![p] = "ValueError"]
    /\ stagedKey' = [stagedKey EXCEPT ![p] = <<>>]
    /\ raced' = [raced EXCEPT ![p] = FALSE]
    /\ UNCHANGED <<followerItems, followerCount, followingCount, userStream,
                   staging, pc, track>>
    /\ UNCHANGED <<inboundVars, replyVars, expandVars, pipeVars, outboxVars>>
    /\ UNCHANGED libVars

\* visit_follow up to the put of add_user_follower: the follower item is put
\* unless it exists.  ConditionalCheckFailedException is caught and logged
\* as an existing follower; the count update is skipped, the Accept is made
\* and saved, and the invocation returns.
visit_follow(p, username, follow) ==
    /\ pc[p] = "idle"
    /\ dispatched < MaxDispatch
    /\ ~fails_ownership(username, follow)
    /\ dispatched' = dispatched + 1
    /\ job' = [job EXCEPT ![p] = [username |-> username, activity |-> follow]]
    /\ raced' = [raced EXCEPT ![p] = FALSE]
    /\ track' = TrackOnStart(username, follow)
    /\ LET key == make_follower_key(username, follow.actor)
       IN IF follower_put_condition(followerItems, key)
          THEN /\ followerItems' = put_item(followerItems, FollowerItem(key, follow))
               /\ userStream' = Append(userStream, StreamRecord("INSERT", key))
               /\ pc' = [pc EXCEPT ![p] = "update_item"]
               /\ res' = [res EXCEPT ![p] = "added"]
               /\ stagedKey' = [stagedKey EXCEPT ![p] = <<>>]
               /\ UNCHANGED staging
          ELSE /\ res' = [res EXCEPT ![p] = "existing"]
               /\ staging' = save_object(staging, username,
                                 Accept_create(followed_id(follow), follow))
               /\ stagedKey' = [stagedKey EXCEPT ![p] = <<Len(staging) + 1>>]
               /\ UNCHANGED <<followerItems, userStream, pc>>
    /\ UNCHANGED <<followerCount, followingCount>>
    /\ UNCHANGED <<inboundVars, replyVars, expandVars, pipeVars, outboxVars>>
    /\ UNCHANGED libVars

\* A count that only ever goes up.
count_step_up(activity) == 1

\* The number add_user_follower and remove_user_follower add to followerCount
\* of the user record after their conditional write went through.
follower_count_step(activity) == IF activity.type = "Follow" THEN 1 ELSE -1

\* The rest of add_user_follower / remove_user_follower, the update_item on
\* the user record, and the rest of the invocation.
update_follower_count(p) ==
    /\ pc[p] = "update_item"
    /\ LET username == job[p].username
           activity == job[p].activity
       IN /\ followerCount' = [followerCount EXCEPT ![username] =
                                 @ + follower_count_step(activity)]
          /\ userStream' = Append(userStream,
                                  StreamRecord("MODIFY", make_user_key(username)))
          /\ IF activity.type = "Follow"
             THEN /\ staging' = save_object(staging, username,
                                    Accept_create(followed_id(activity), activity))
                  /\ stagedKey' = [stagedKey EXCEPT ![p] = <<Len(staging) + 1>>]
             ELSE UNCHANGED <<staging, stagedKey>>
    /\ pc' = [pc EXCEPT ![p] = "idle"]
    /\ UNCHANGED <<followerItems, followingCount, job, res, raced, track, dispatched>>
    /\ UNCHANGED <<inboundVars, replyVars, expandVars, pipeVars, outboxVars>>
    /\ UNCHANGED libVars

\* visit_undo and Undoer.visit_follow up to the delete of
\* remove_user_follower: the follower item is deleted if it exists.  A
\* followActivityId other than the id of the undone Follow is only logged.
visit_undo(p, username, undo) ==
    /\ pc[p] = "idle"
    /\ dispatched < MaxDispatch
    /\ ~fails_ownership(username, undo.object)
    /\ dispatched' = dispatched + 1
    /\ job' = [job EXCEPT ![p] = [username |-> username, activity |-> undo]]
    /\ stagedKey' = [stagedKey EXCEPT ![p] = <<>>]
    /\ track' = TrackOnStart(username, undo)
    /\ LET key == make_follower_key(username, undo.object.actor)
       IN IF ItemsAt(followerItems, key) # {}
          THEN /\ followerItems' = delete_item(followerItems, key)
               /\ userStream' = Append(userStream, StreamRecord("REMOVE", key))
               /\ pc' = [pc EXCEPT ![p] = "update_item"]
               /\ res' = [res EXCEPT ![p] = "removed"]
               /\ raced' = [q \in Procs |->
                              IF q = p THEN FALSE
                              ELSE IF /\ job[q].activity.type = "Follow"
                                      /\ res[q] \in {"added", "existing"}
                                      /\ make_follower_key(job[q].username,
                                             job[q].activity.actor) = key
                              THEN TRUE ELSE raced[q]]
          ELSE /\ res' = [res EXCEPT ![p] = "missing"]
               /\ raced' = [raced EXCEPT ![p] = FALSE]
               /\ UNCHANGED <<followerItems, userStream, pc>>
    /\ UNCHANGED <<followerCount, followingCount, staging>>
    /\ UNCHANGED <<inboundVars, replyVars, expandVars, pipeVars, outboxVars>>
    /\ UNCHANGED libVars

----------------------------------------------------------------------------
\* update_user_statistics: consumes batches of the user table's change stream.

\* Updates.get_user_updates: the dict keeps the order of insertion.
IndexOfUser(updates, username) ==
    IF \E i \in 1..Len(updates) : updates[i].username = username
    THEN CHOOSE i \in 1..Len(updates) : updates[i].username = username
    ELSE 0

get_user_updates(updates, username) ==
    IF IndexOfUser(updates, username) # 0 THEN updates
    ELSE Append(updates, [username |-> username,
                          delta_follower_count |-> 0,
                          delta_followee_count |-> 0])

add_follower_count(updates, key, delta) ==
    LET username == parse_follower_partition_key(key.pk)[2]
        got == get_user_updates(updates, username)
    IN [got EXCEPT ![IndexOfUser(got, username)].delta_follower_count = @ + delta]

add_followee_count(updates, key, delta) ==
    LET username == parse_followee_partition_key(key.pk)[2]
        got == get_user_updates(updates, username)
    IN [got EXCEPT ![IndexOfUser(got, username)].delta_followee_count = @ + delta]

process_insert(updates, key) ==
    IF key.pk[1] = FOLLOWER_PK_PREFIX THEN add_follower_count(updates, key, 1)
    ELSE IF key.pk[1] = FOLLOWEE_PK_PREFIX THEN add_followee_count(updates, key, 1)
    ELSE updates

\* A REMOVE that is counted for the followers only.
remove_followers_only(updates, key) ==
    IF key.pk[1] = FOLLOWER_PK_PREFIX THEN add_follower_count(updates, key, -1)
    ELSE updates

process_remove(updates, key) ==
    IF key.pk[1] = FOLLOWER_PK_PREFIX THEN add_follower_count(updates, key, -1)
    ELSE IF key.pk[1] = FOLLOWEE_PK_PREFIX THEN add_followee_count(updates, key, -1)
    ELSE updates

process_record(updates, record) ==
    IF record.eventName = "INSERT" THEN process_insert(updates, record.Keys)
    ELSE IF record.eventName = "REMOVE" THEN process_remove(updates, record.Keys)
    ELSE updates

RECURSIVE process_records(_, _)
process_records(updates, records) ==
    IF records = <<>> THEN updates
    ELSE process_records(process_record(updates, Head(records)), Tail(records))

\* UserUpdates.make_statement applied to the counts of the user records: both
\* counts of each user of the batch are moved by the accumulated deltas.
RECURSIVE execute_follower(_, _)
execute_follower(counts, updates) ==
    IF updates = <<>> THEN counts
    ELSE execute_follower(
           IF Head(updates).username \in DOMAIN counts
           THEN [counts EXCEPT ![Head(updates).username] =
                   @ + Head(updates).delta_follower_count]
           ELSE counts,
           Tail(updates))

RECURSIVE execute_followee(_, _)
execute_followee(counts, updates) ==
    IF updates = <<>> THEN counts
    ELSE execute_followee(
           IF Head(updates).username \in DOMAIN counts
           THEN [counts EXCEPT ![Head(updates).username] =
                   @ + Head(updates).delta_followee_count]
           ELSE counts,
           Tail(updates))

\* The stream records of the statements that changed a user record.
RECURSIVE ModifiedBy(_)
ModifiedBy(updates) ==
    IF updates = <<>> THEN <<>>
    ELSE LET h == Head(updates)
         IN (IF /\ h.username \in Users
                /\ (h.delta_follower_count # 0 \/ h.delta_followee_count # 0)
             THEN <<StreamRecord("MODIFY", make_user_key(h.username))>>
             ELSE <<>>) \o ModifiedBy(Tail(updates))

\* lambda_handler of update_user_statistics on the next n records.
UpdateUserStatistics(n) ==
    /\ n <= Len(userStream)
    /\ LET updates == process_records(<<>>, SubSeq(userStream, 1, n))
       IN /\ followerCount' = execute_follower(followerCount, updates)
          /\ followingCount' = execute_followee(followingCount, updates)
          /\ userStream' = SubSeq(userStream, n + 1, Len(userStream))
                             \o ModifiedBy(updates)
    /\ UNCHANGED <<followerItems, staging, pc, job, res, stagedKey, raced, track,
                   dispatched>>
    /\ UNCHANGED <<inboundVars, replyVars, expandVars, pipeVars, outboxVars>>
    /\ UNCHANGED libVars

----------------------------------------------------------------------------
\* libactivitypub.signature.

DEFAULT_SIGNING_ALGORITHM == "rsa-sha256"
SIGNATURE_WINDOW_IN_SECONDS == 30
MANDATORY_HEADERS == {"(request-target)", "host", "date"}

\* SHA-256 and the two Base64 encodings, as injective constructors.
sha256(text) == <<"sha256", text>>
b64encode(hash) == <<"base64", hash>>
b64decode(b64) == b64[2]
to_urlsafe_base64(b64) == <<"base64url", b64[2]>>

digest_request_body(text) == [prefix |-> "SHA-256=", hash |-> b64encode(sha256(text))]

is_valid_request_body(text, digest) == digest_request_body(text) = digest

Abs(n) == IF n < 0 THEN -n ELSE n

\* Defined on dates parsedate_to_datetime turns into an aware datetime.
is_valid_signature_date(date) == Abs(date.elapsed) <= SIGNATURE_WINDOW_IN_SECONDS

\* headers is the sequence of header names of the signature.
parse_signature_headers_parameter(headers) ==
    \A h \in MANDATORY_HEADERS : \E i \in 1..Len(headers) : headers[i] = h

concatenate_headers(headers, header_values) ==
    [i \in 1..Len(headers) |-> <<headers[i], header_values[headers[i]]>>]

\* verify_signature_and_headers validates the body only "if a digest is
\* given", that is if the signature lists the digest header.
digest_is_checked(headers) == \E i \in 1..Len(headers) : headers[i] = "digest"

\* RSASSA-PKCS1-v1_5: signature bytes verify under the key of the account
\* that made them, over the message they were made over.  FALSE where the
\* code raises VerificationError.
verify_headers(headers, header_values, signature, public_key_owner) ==
    LET signature_bytes == b64decode(signature)
    IN  /\ signature_bytes.by = public_key_owner
        /\ signature_bytes.over = concatenate_headers(headers, header_values)

\* A signature over the names of the headers alone.
sign_names_only(headers, header_values, private_key_owner) ==
    b64encode([by |-> private_key_owner,
               over |-> [i \in 1..Len(headers) |-> <<headers[i], "">>]])

\* sign_headers with the private key of an account.
sign_headers(headers, header_values, private_key_owner) ==
    b64encode([by |-> private_key_owner,
               over |-> concatenate_headers(headers, header_values)])

\* dict(header_values) of a list of pairs: the last pair of a name gives the
\* value.
dict(pairs) ==
    [h \in { pairs[i][1] : i \in 1..Len(pairs) } |->
        pairs[CHOOSE i \in 1..Len(pairs) :
                 /\ pairs[i][1] = h
                 /\ \A j \in (i + 1)..Len(pairs) : pairs[j][1] # h][2]]

\* The parameters of the Signature header make_signature_header formats; the
\* headers parameter is the sequence of the names.
make_signature_header(key_id, private_key_owner, header_values) ==
    LET headers == [i \in 1..Len(header_values) |-> header_values[i][1]]
    IN  [key_id |-> key_id, algorithm |-> "rsa-sha256", headers |-> headers,
         signature |-> sign_headers(headers, dict(header_values),
                                    private_key_owner)]

\* The exception verify_signature_and_headers leaves with, or "ok".  A
\* malformed date raises TypeError or ValueError depending on the Python
\* version of the build, given as malformed_date_error.
verify_signature_and_headers(signature, public_key_owner, header_values, malformed_date_error) ==
    LET headers == signature.headers
        date == header_values["date"]
    IN  IF signature.algorithm # DEFAULT_SIGNING_ALGORITHM THEN "ValueError"
        ELSE IF date.kind = "malformed" THEN malformed_date_error
        ELSE IF date.kind = "naive" THEN "TypeError"
        ELSE IF ~is_valid_signature_date(date) THEN "ValueError"
        ELSE IF ~parse_signature_headers_parameter(headers) THEN "ValueError"
        ELSE IF /\ digest_is_checked(headers)
                /\ ~is_valid_request_body(header_values["body"],
                                          header_values["digest"])
             THEN "VerificationError"
        ELSE IF \E i \in 1..Len(headers) : headers[i] \notin DOMAIN header_values
             THEN "KeyError"
        ELSE IF ~verify_headers(headers, header_values, signature.signature,
                                public_key_owner)
             THEN "VerificationError"
        ELSE "ok"

make_key_id(actor_id) == [actor |-> actor_id, fragment |-> "main-key"]

\* The owner of no key.
NoOwner == [host |-> "", path |-> <<>>]

\* Lists of header name/value pairs that are signed and presented.
MaxPairs == 2
HeaderPairs ==
    { <<h, v>> : h \in {"(request-target)", "host", "date"}, v \in {"v1", "v2"} }
PairLists == UNION { [1..n -> HeaderPairs] : n \in 0..MaxPairs }
KeyOwners == { make_user_id(DOMAIN_NAME, u) : u \in Users }

NoSign ==
    [pairs |-> <<>>, owner |-> NoOwner,
     header |-> make_signature_header(make_key_id(NoOwner), NoOwner, <<>>),
     presented |-> <<>>, key |-> NoOwner, result |-> ""]

\* make_signature_header for an outbound request of an account.
SignHeaders(owner, pairs) ==
    /\ lastSign' = [NoSign EXCEPT
                       !.pairs = pairs, !.owner = owner,
                       !.header = make_signature_header(make_key_id(owner),
                                                        owner, pairs)]
    /\ UNCHANGED <<lastKey, walk, lastRun, crawl, kept>>
    /\ UNCHANGED <<followVars, inboundVars, replyVars, expandVars, pipeVars,
                   outboxVars>>

\* verify_headers of the last signature over the headers a receiver is
\* presented with, under the public key of an account.
VerifyHeaders(key_owner, presented) ==
    /\ lastSign.owner # NoOwner
    /\ lastSign' =
          [lastSign EXCEPT
              !.presented = presented, !.key = key_owner,
              !.result =
                  IF verify_headers(
                        [i \in 1..Len(presented) |-> presented[i][1]],
                        dict(presented), lastSign.header.signature, key_owner)
                  THEN "ok" ELSE "VerificationError"]
    /\ UNCHANGED <<lastKey, walk, lastRun, crawl, kept>>
    /\ UNCHANGED <<followVars, inboundVars, replyVars, expandVars, pipeVars,
                   outboxVars>>

----------------------------------------------------------------------------
\* receive_inbound_activity: the inbox endpoint.  The handler runs block by
\* block; what the sender and the remote servers supplied (the parts of the
\* Signature header, the Date header, the actor document) is drawn where the
\* handler first reads it.

PREFILTER_BODY_SIZE == 10240

Body(text, length, parsed, actor) ==
    [text |-> text, length |-> length, parsed |-> parsed, actor |-> actor]

\* Request bodies: what Activity.parse_object(json.loads(body)) makes of each
\* is part of the body.
Bodies ==
    { Body("follow by r1", 300, "activity", RemoteId("r1")),
      Body("note by r2", 10240, "activity", RemoteId("r2")),
      Body("delete of r1 by r1", 300, "self_delete", RemoteId("r1")),
      Body("not an activity", 300, "invalid", RemoteId("r1")),
      Body("long note by r1", 10241, "activity", RemoteId("r1")),
      Body("long text", 10241, "invalid", RemoteId("r1")) }

\* Values of the Digest header a sender may attach to a body.
DigestsFor(body) ==
    { digest_request_body(body.text),
      digest_request_body("follow by r1"),
      digest_request_body("note by r2"),
      [prefix |-> "SHA-512=", hash |-> b64encode(sha256(body.text))] }

InboxNames == {"alice", "nobody"}

Dates ==
    { [kind |-> "aware", elapsed |-> 30], [kind |-> "aware", elapsed |-> -31],
      [kind |-> "naive", elapsed |-> 0], [kind |-> "malformed", elapsed |-> 0] }

\* email.utils.parsedate_to_datetime raises TypeError before Python 3.10 and
\* ValueError from then on.
MalformedDateErrors(date) ==
    IF date.kind = "malformed" THEN {"TypeError", "ValueError"} ELSE {"ValueError"}

SignedHeaders ==
    { <<"(request-target)", "host", "date">>,
      <<"(request-target)", "host", "date", "digest">>,
      <<"(request-target)", "host", "date", "digest", "content-type">>,
      <<"(request-target)", "host", "digest">>,
      <<"(request-target)", "host", "date", "user-agent">> }


NoRequest == [username |-> "", body |-> Body("", 0, "invalid", RemoteId("")),
              digest |-> digest_request_body(""),
              key_id |-> make_key_id(RemoteId("")), prefiltered |-> FALSE,
              passed |-> <<>>]

\* History kept in the request: the checks of the handler it has passed.
Passed(event, check) == [event EXCEPT !.passed = Append(@, check)]

NoResponse == [step |-> "", raised |-> "", quarantined |-> FALSE, saved |-> FALSE,
               rejecting |-> ""]

\* prefilter_activity: <<filter tag, parsed>>, or "raise" for a body that is
\* not an activity.
prefilter_activity(body) ==
    IF body.length > PREFILTER_BODY_SIZE THEN <<"", FALSE>>
    ELSE IF body.parsed = "invalid" THEN <<"raise", FALSE>>
    ELSE IF body.parsed = "self_delete" THEN <<"Delete of the actor itself", TRUE>>
    ELSE <<"", TRUE>>

\* quarantine: the payload is the event.
quarantine(blobs, tag, event) ==
    blobs \cup {[tag |-> tag, username |-> event.username,
                 body |-> event.body.text, digest |-> event.digest]}

\* put_object on the quarantine bucket: the store takes the object, or the
\* call raises botocore's ClientError.
QuarantineOutcomes == {"ok", "ClientError"}

\* The handler quarantines the event and then raises the error; quarantine is
\* called inside the except clause with no handler around it, so what its
\* put_object raises leaves the handler in place of the error.
Rejected(step, tag, error) ==
    \E stored \in QuarantineOutcomes :
      /\ quarantineBlobs' = IF stored = "ok"
                            THEN quarantine(quarantineBlobs, tag, request')
                            ELSE quarantineBlobs
      /\ response' = [step |-> step,
                      raised |-> IF stored = "ok" THEN error ELSE stored,
                      quarantined |-> stored = "ok", saved |-> FALSE,
                      rejecting |-> error]
      /\ rpc' = "idle"

\* An exception no except clause of the handler names leaves the handler.
Unhandled(step, error) ==
    /\ response' = [step |-> step, raised |-> error, quarantined |-> FALSE,
                    saved |-> FALSE, rejecting |-> ""]
    /\ rpc' = "idle"
    /\ UNCHANGED quarantineBlobs

Continue(next) ==
    /\ rpc' = next
    /\ UNCHANGED <<quarantineBlobs, response>>

\* lambda_handler, first block: the event arrives and is prefiltered.
Receive(username, body, digest) ==
    /\ rpc = "idle"
    /\ received < MaxRequests
    /\ received' = received + 1
    /\ LET filtered == prefilter_activity(body)
       IN /\ request' = [username |-> username, body |-> body, digest |-> digest,
                         key_id |-> NoRequest.key_id, prefiltered |-> filtered[2],
                         passed |-> <<>>]
          /\ IF filtered[1] = "raise"
             THEN Rejected("prefilter", "invalid_activity", "BadRequestError")
             ELSE IF filtered[1] # ""
             THEN /\ response' = [NoResponse EXCEPT !.step = "prefilter"]
                  /\ rpc' = "idle"
                  /\ UNCHANGED quarantineBlobs
             ELSE /\ response' = NoResponse
                  /\ rpc' = "parse_signature"
                  /\ UNCHANGED quarantineBlobs
    /\ UNCHANGED inboxBlobs
    /\ UNCHANGED <<followVars, replyVars, expandVars, pipeVars, outboxVars>>
    /\ UNCHANGED libVars

\* parse_signature: the Signature header matches the pattern or ValueError.
ParseSignature(wellformed, signer) ==
    /\ rpc = "parse_signature"
    /\ request' = [request EXCEPT !.key_id =
                     IF wellformed THEN make_key_id(RemoteId(signer)) ELSE @]
    /\ IF wellformed THEN Continue("resolve_signer")
       ELSE Rejected("parse_signature", "bad_signature", "UnauthorizedError")
    /\ UNCHANGED <<inboxBlobs, received>>
    /\ UNCHANGED <<followVars, replyVars, expandVars, pipeVars, outboxVars>>
    /\ UNCHANGED libVars

\* What the GET of the key id may end in: an actor document, an HTTP error
\* status, a timeout, a body that is not JSON, a JSON object without "type".
SignerOutcomes == {"actor", "HTTPError", "Timeout", "not JSON", "no type"}

\* Actor.resolve_uri(key_id) under except HTTPError and except ValueError.
\* res.json() raises ValueError; DictObject raises TypeError for an object
\* without "type".
ResolveSigner(outcome) ==
    /\ rpc = "resolve_signer"
    /\ request' = request
    /\ CASE outcome = "actor" -> Continue("public_key")
         [] outcome = "HTTPError" ->
              Rejected("resolve_signer", "bad_signer", "UnauthorizedError")
         [] outcome = "not JSON" ->
              Rejected("resolve_signer", "bad_signer_format", "UnauthorizedError")
         [] outcome = "Timeout" -> Unhandled("resolve_signer", "Timeout")
         [] outcome = "no type" -> Unhandled("resolve_signer", "TypeError")
    /\ UNCHANGED <<inboxBlobs, received>>
    /\ UNCHANGED <<followVars, replyVars, expandVars, pipeVars, outboxVars>>
    /\ UNCHANGED libVars

\* signer.public_key and the comparison of its id with the key id.
LoadPublicKey(key) ==
    /\ rpc = "public_key"
    /\ request' = request
    /\ CASE key = "ok" -> Continue("verify_signature")
         [] key \in {"missing", "invalid"} ->
              Rejected("public_key", "bad_signer_format", "UnauthorizedError")
         [] key = "other id" ->
              Rejected("key_id", "bad_signer_format", "UnauthorizedError")
    /\ UNCHANGED <<inboxBlobs, received>>
    /\ UNCHANGED <<followVars, replyVars, expandVars, pipeVars, outboxVars>>
    /\ UNCHANGED libVars

HeaderValues(event, date) ==
    [h \in {"(request-target)", "body", "host", "date", "digest", "content-type"} |->
       CASE h = "(request-target)" -> <<"post", "users", event.username, "inbox">>
         [] h = "body" -> event.body.text
         [] h = "host" -> DOMAIN_NAME
         [] h = "date" -> date
         [] h = "digest" -> event.digest
         [] h = "content-type" -> "application/activity+json"]

\* verify_signature_and_headers under except (KeyError, ValueError,
\* VerificationError).  The signature bytes were made by some account, over
\* the signing string of this request or over another one.
VerifySignature(algorithm, date, headers, by, genuine, malformed_date_error) ==
    /\ rpc = "verify_signature"
    /\ LET header_values == HeaderValues(request, date)
           known == \A i \in 1..Len(headers) : headers[i] \in DOMAIN header_values
           signature ==
             [key_id |-> request.key_id, algorithm |-> algorithm,
              headers |-> headers,
              signature |->
                 b64encode([by |-> RemoteId(by),
                            over |-> IF genuine /\ known
                                     THEN concatenate_headers(headers,
                                                              header_values)
                                     ELSE <<>>])]
           raised == verify_signature_and_headers(
                       signature, request.key_id.actor, header_values,
                       malformed_date_error)
       IN /\ request' = IF raised = "ok" THEN Passed(request, "verify_signature")
                         ELSE request
          /\ CASE raised = "ok" -> Continue("check_actor")
               [] raised = "TypeError" -> Unhandled("verify_signature", "TypeError")
               [] OTHER -> Rejected("verify_signature", "invalid_signature",
                                    "UnauthorizedError")
    /\ UNCHANGED <<inboxBlobs, received>>
    /\ UNCHANGED <<followVars, replyVars, expandVars, pipeVars, outboxVars>>
    /\ UNCHANGED libVars

\* The body is parsed and the activity is taken whoever its actor is.
TakeAnyActor ==
    /\ rpc = "check_actor"
    /\ request' = request
    /\ IF ~request.prefiltered /\ request.body.parsed = "invalid"
       THEN Rejected("parse_body", "invalid_activity", "BadRequestError")
       ELSE Continue("save")
    /\ UNCHANGED <<inboxBlobs, received>>
    /\ UNCHANGED <<followVars, replyVars, expandVars, pipeVars, outboxVars>>
    /\ UNCHANGED libVars

\* The body is parsed now if it was too large to prefilter, and the signer
\* must be the actor of the activity.
CheckActor ==
    /\ rpc = "check_actor"
    /\ IF ~request.prefiltered /\ request.body.parsed = "invalid"
       THEN /\ request' = request
            /\ Rejected("parse_body", "invalid_activity", "BadRequestError")
       ELSE IF request.key_id.actor # request.body.actor
       THEN /\ request' = request
            /\ Rejected("signer_actor", "invalid_activity", "UnauthorizedError")
       ELSE /\ request' = Passed(request, "signer_actor")
            /\ Continue("save")
    /\ UNCHANGED <<inboxBlobs, received>>
    /\ UNCHANGED <<followVars, replyVars, expandVars, pipeVars, outboxVars>>
    /\ UNCHANGED libVars

\* A store that takes whatever checksum it is given.
checksum_ignored(text, checksum) == TRUE

\* put_object with ChecksumSHA256: the store computes the SHA-256 of the body
\* it received and refuses the object when the checksum given does not match.
checksum_accepted(text, checksum) == checksum = b64encode(sha256(text))

InboxBlob(recipient, text, digest) ==
    [Key |-> <<"inbox", "users", recipient, to_urlsafe_base64(digest.hash)>>,
     Body |-> text, ChecksumSHA256 |-> digest.hash]

\* find_user_by_username, then save_activity_in_inbox under except ValueError.
\* The error of the store is not handled.
SaveActivityInInbox ==
    /\ rpc = "save"
    /\ request' = IF request.username \in Users THEN Passed(request, "find_user")
                  ELSE request
    /\ IF request.username \notin Users
       THEN /\ Rejected("find_user", "bad_recipient", "NotFoundError")
            /\ UNCHANGED inboxBlobs
       ELSE IF request.digest.prefix # "SHA-256="
       THEN /\ Rejected("save_activity_in_inbox", "bad_signature", "BadRequestError")
            /\ UNCHANGED inboxBlobs
       ELSE IF ~checksum_accepted(request.body.text, request.digest.hash)
       THEN /\ Unhandled("save_activity_in_inbox", "ClientError")
            /\ UNCHANGED inboxBlobs
       ELSE /\ inboxBlobs' = inboxBlobs \cup
                  {InboxBlob(request.username, request.body.text, request.digest)}
            /\ response' = [step |-> "save_activity_in_inbox", raised |-> "",
                            quarantined |-> FALSE, saved |-> TRUE,
                            rejecting |-> ""]
            /\ rpc' = "idle"
            /\ UNCHANGED quarantineBlobs
    /\ UNCHANGED received
    /\ UNCHANGED <<followVars, replyVars, expandVars, pipeVars, outboxVars>>
    /\ UNCHANGED libVars

NextInbound ==
    \/ \E u \in InboxNames, b \in Bodies : \E d \in DigestsFor(b) : Receive(u, b, d)
    \/ \E w \in BOOLEAN, r \in RemoteActors : ParseSignature(w, r)
    \/ \E o \in SignerOutcomes : ResolveSigner(o)
    \/ \E k \in {"ok", "missing", "invalid", "other id"} : LoadPublicKey(k)
    \/ \E a \in {DEFAULT_SIGNING_ALGORITHM, "hs2019"}, d \in Dates,
          h \in SignedHeaders, r \in RemoteActors, g \in BOOLEAN :
          \E e \in MalformedDateErrors(d) : VerifySignature(a, d, h, r, g, e)
    \/ CheckActor
    \/ SaveActivityInInbox

----------------------------------------------------------------------------
\* libmumble.object_table and the ids of posts (libmumble.id_scheme).

OBJECT_PK_PREFIX == "object:"
REPLY_SK_PREFIX == "reply:"

\* https://{domain}/users/{username}/{category}/{unique part}
UserObjectId(domain, username, category, unique_part) ==
    [host |-> domain, path |-> <<"users", username, category, unique_part>>]

\* <<ok, domain, username, category, unique part>>; the domain is returned
\* but not compared with the domain of the server.
parse_user_object_id(object_id) ==
    IF object_id.host # "" /\ Len(object_id.path) = 4 /\ object_id.path[1] = "users"
    THEN <<TRUE, object_id.host, object_id.path[2], object_id.path[3],
           object_id.path[4]>>
    ELSE <<FALSE, "", "", "", "">>

make_user_post_partition_key(username, unique_part) ==
    <<OBJECT_PK_PREFIX, username, ":post:", unique_part>>

make_user_post_key(username, unique_part) ==
    [pk |-> make_user_post_partition_key(username, unique_part),
     sk |-> <<"metadata">>]

\* A sort key without the id of the reply.
reply_key_by_time(username, unique_part, obj) ==
    [pk |-> make_user_post_partition_key(username, unique_part),
     sk |-> <<REPLY_SK_PREFIX, obj.published, "">>]

make_user_post_reply_key(username, unique_part, obj) ==
    [pk |-> make_user_post_partition_key(username, unique_part),
     sk |-> <<REPLY_SK_PREFIX, obj.published, obj.id>>]

\* find_user_post: whether the metadata item of the post exists.
find_user_post(posts, username, unique_part) ==
    make_user_post_partition_key(username, unique_part) \in DOMAIN posts

\* Unique parts of the ids of local posts.
PostParts == {"P1"}
\* Ids and timestamps remote servers give their objects.
ReplyIds == {"n1", "n2"}
Published == {"t1", "t2"}

\* What the "inReplyTo" of a remote object may refer to; NoReference stands
\* for an object without "inReplyTo".
NoReference == [host |-> "", path |-> <<>>]
ReplyTargets ==
    { UserObjectId(DOMAIN_NAME, u, "posts", part) : u \in Users, part \in PostParts }
    \cup { UserObjectId(DOMAIN_NAME, "alice", "activities", "A1"), NoReference }

\* Objects of remote Create activities; published = "" stands for an object
\* without "published".
RemoteObjects ==
    [id : ReplyIds, published : Published \cup {""}, inReplyTo : ReplyTargets]

\* What else an "inReplyTo" may refer to: the post of the same path on
\* another host and an object of a server with other paths.
TargetsAnywhere ==
    { NoReference,
      UserObjectId(DOMAIN_NAME, "alice", "posts", "P1"),
      UserObjectId(DOMAIN_NAME, "alice", "activities", "A1"),
      UserObjectId(REMOTE_HOST, "alice", "posts", "P1"),
      [host |-> REMOTE_HOST, path |-> <<"notes", "N1">>] }

ObjectsAnywhere ==
    [id : ReplyIds, published : {"t1", ""}, inReplyTo : TargetsAnywhere]

\* push_staged_object: put_post puts the metadata item with replyCount 0
\* unless the item exists.
put_post(username, unique_part) ==
    /\ Len(objectStream) < MaxPending
    /\ LET key == make_user_post_key(username, unique_part)
       IN /\ key.pk \notin DOMAIN postItems
          /\ postItems' = [pk \in DOMAIN postItems \cup {key.pk} |->
                             IF pk = key.pk THEN 0 ELSE postItems[pk]]
          /\ objectStream' = Append(objectStream, StreamRecord("INSERT", key))
    /\ UNCHANGED <<replyItems, repliesAdded, lastCreate>>
    /\ UNCHANGED <<followVars, inboundVars, expandVars, pipeVars, outboxVars>>
    /\ UNCHANGED libVars

\* The outcome of visit_create for an object: the error it raises, "ignored",
\* or "added".  add_reply_to_post puts the reply item unless it exists.
visit_create_result(obj) ==
    IF obj.inReplyTo = NoReference THEN "ignored"
    ELSE LET parsed == parse_user_object_id(obj.inReplyTo)
         IN IF ~parsed[1] THEN "ValueError"
            ELSE IF parsed[4] # "posts" THEN "ignored"
            ELSE IF ~find_user_post(postItems, parsed[3], parsed[5])
                 THEN "NotFoundError"
            ELSE IF obj.published = "" THEN "AttributeError"
            ELSE IF ItemsAt(replyItems,
                       make_user_post_reply_key(parsed[3], parsed[5], obj)) # {}
                 THEN "DuplicateItemError"
            ELSE "added"

\* translate_inbound_activity for a Create: visit_create.
visit_create(obj) ==
    /\ LET result == visit_create_result(obj)
           parsed == parse_user_object_id(obj.inReplyTo)
       IN /\ lastCreate' = result
          /\ repliesAdded' = IF result \in {"added", "DuplicateItemError"}
                             THEN repliesAdded \cup {obj} ELSE repliesAdded
          /\ IF result = "added"
             THEN LET key == make_user_post_reply_key(parsed[3], parsed[5], obj)
                  IN /\ Len(objectStream) < MaxPending
                     /\ replyItems' = put_item(replyItems,
                          [pk |-> key.pk, sk |-> key.sk, id |-> obj.id,
                           category |-> "reply", published |-> obj.published])
                     /\ objectStream' = Append(objectStream,
                                               StreamRecord("INSERT", key))
             ELSE UNCHANGED <<replyItems, objectStream>>
    /\ UNCHANGED postItems
    /\ UNCHANGED <<followVars, inboundVars, expandVars, pipeVars, outboxVars>>
    /\ UNCHANGED libVars

----------------------------------------------------------------------------
\* update_object_statistics: consumes batches of the object table's change
\* stream.  The updates are kept per partition key of a post, in the order
\* the dict received them.

IndexOfPost(updates, post_pk) ==
    IF \E i \in 1..Len(updates) : updates[i].post_pk = post_pk
    THEN CHOOSE i \in 1..Len(updates) : updates[i].post_pk = post_pk
    ELSE 0

\* A maintainer that drops the delta.
drop_reply_count(updates, key, delta) == updates

add_reply_count(updates, key, delta) ==
    LET got == IF IndexOfPost(updates, key.pk) # 0 THEN updates
               ELSE Append(updates, [post_pk |-> key.pk, delta_reply_count |-> 0])
    IN [got EXCEPT ![IndexOfPost(got, key.pk)].delta_reply_count = @ + delta]

object_process_insert(updates, key) ==
    IF key.pk[1] = OBJECT_PK_PREFIX /\ key.sk[1] = REPLY_SK_PREFIX
    THEN add_reply_count(updates, key, 1)
    ELSE updates

object_process_remove(updates, key) ==
    IF key.pk[1] = OBJECT_PK_PREFIX /\ key.sk[1] = REPLY_SK_PREFIX
    THEN add_reply_count(updates, key, -1)
    ELSE updates

object_process_record(updates, record) ==
    IF record.eventName = "INSERT" THEN object_process_insert(updates, record.Keys)
    ELSE IF record.eventName = "REMOVE" THEN object_process_remove(updates, record.Keys)
    ELSE updates

RECURSIVE object_process_records(_, _)
object_process_records(updates, records) ==
    IF records = <<>> THEN updates
    ELSE object_process_records(object_process_record(updates, Head(records)),
                                Tail(records))

\* PostUpdates.make_statement applied to the metadata items: a statement for
\* a post that has no metadata item fails and is only logged.
RECURSIVE execute_posts(_, _)
execute_posts(posts, updates) ==
    IF updates = <<>> THEN posts
    ELSE execute_posts(
           IF Head(updates).post_pk \in DOMAIN posts
           THEN [posts EXCEPT ![Head(updates).post_pk] =
                   @ + Head(updates).delta_reply_count]
           ELSE posts,
           Tail(updates))

RECURSIVE PostsModifiedBy(_)
PostsModifiedBy(updates) ==
    IF updates = <<>> THEN <<>>
    ELSE LET h == Head(updates)
         IN (IF h.post_pk \in DOMAIN postItems /\ h.delta_reply_count # 0
             THEN <<StreamRecord("MODIFY", [pk |-> h.post_pk, sk |-> <<"metadata">>])>>
             ELSE <<>>) \o PostsModifiedBy(Tail(updates))

\* lambda_handler of update_object_statistics on the next n records.
UpdateObjectStatistics(n) ==
    /\ n <= Len(objectStream)
    /\ LET updates == object_process_records(<<>>, SubSeq(objectStream, 1, n))
       IN /\ postItems' = execute_posts(postItems, updates)
          /\ objectStream' = SubSeq(objectStream, n + 1, Len(objectStream))
                               \o PostsModifiedBy(updates)
    /\ UNCHANGED <<replyItems, repliesAdded, lastCreate>>
    /\ UNCHANGED <<followVars, inboundVars, expandVars, pipeVars, outboxVars>>
    /\ UNCHANGED libVars

----------------------------------------------------------------------------
\* Successive invocations of the statistics maintainers in one process.

make_followee_key(username, followee_id) ==
    [pk |-> <<FOLLOWEE_PK_PREFIX, username>>, sk |-> followee_id]

\* What the last invocation of each maintainer had accumulated when it
\* executed its statements (user, object), what the invocation before it
\* had (prev_user, prev_object), and the number of records fed so far.
NoKept ==
    [user |-> <<>>, prev_user |-> <<>>, object |-> <<>>, prev_object |-> <<>>,
     fed |-> 0]

\* Updates that are kept in the class, and seen by the next invocation.
shared_updates(previous) == previous

\* Updates.__init__ of the two maintainers: an empty dict of its own,
\* whatever the invocation before has accumulated.
new_updates(previous) == <<>>

\* Change records of the user table: follower and followee items of the
\* users, and the record of a user.
UserChanges ==
    { StreamRecord(e, k) :
        e \in {"INSERT", "REMOVE"},
        k \in { make_follower_key("alice", RemoteId("r1")),
                make_followee_key("alice", RemoteId("r1")) } }
    \cup { StreamRecord("INSERT", make_follower_key("bob", RemoteId("r1"))),
           StreamRecord("INSERT", make_user_key("alice")),
           StreamRecord("MODIFY", make_follower_key("alice", RemoteId("r1"))) }

\* Change records of the object table: a reply to the post P1 of alice, and
\* the metadata item of the post.
ObjectChanges ==
    { StreamRecord(e, [pk |-> make_user_post_partition_key("alice", "P1"),
                       sk |-> <<REPLY_SK_PREFIX, "t1", "n1">>]) :
        e \in {"INSERT", "REMOVE"} }
    \cup { StreamRecord("INSERT", make_user_post_key("alice", "P1")) }

\* The stream of the user table receives a change record.
FeedUserStream(record) ==
    /\ kept.fed < MaxFed
    /\ userStream' = Append(userStream, record)
    /\ kept' = [kept EXCEPT !.fed = @ + 1]
    /\ UNCHANGED <<followerItems, followerCount, followingCount, staging, pc, job,
                   res, stagedKey, raced, track, dispatched>>
    /\ UNCHANGED <<inboundVars, replyVars, expandVars, pipeVars, outboxVars>>
    /\ UNCHANGED <<lastSign, lastKey, walk, lastRun, crawl>>

\* The stream of the object table receives a change record.
FeedObjectStream(record) ==
    /\ kept.fed < MaxFed
    /\ objectStream' = Append(objectStream, record)
    /\ kept' = [kept EXCEPT !.fed = @ + 1]
    /\ UNCHANGED <<postItems, replyItems, repliesAdded, lastCreate>>
    /\ UNCHANGED <<followVars, inboundVars, expandVars, pipeVars, outboxVars>>
    /\ UNCHANGED <<lastSign, lastKey, walk, lastRun, crawl>>

\* lambda_handler of update_user_statistics on the next n records, in the
\* process that ran the invocation before.
InvokeUserStatistics(n) ==
    /\ n <= Len(userStream)
    /\ LET updates == process_records(new_updates(kept.user),
                                      SubSeq(userStream, 1, n))
       IN /\ followerCount' = execute_follower(followerCount, updates)
          /\ followingCount' = execute_followee(followingCount, updates)
          /\ userStream' = SubSeq(userStream, n + 1, Len(userStream))
                             \o ModifiedBy(updates)
          /\ kept' = [kept EXCEPT !.user = updates, !.prev_user = kept.user]
    /\ UNCHANGED <<followerItems, staging, pc, job, res, stagedKey, raced, track,
                   dispatched>>
    /\ UNCHANGED <<inboundVars, replyVars, expandVars, pipeVars, outboxVars>>
    /\ UNCHANGED <<lastSign, lastKey, walk, lastRun, crawl>>

\* lambda_handler of update_object_statistics on the next n records, in the
\* process that ran the invocation before.
InvokeObjectStatistics(n) ==
    /\ n <= Len(objectStream)
    /\ LET updates == object_process_records(new_updates(kept.object),
                                             SubSeq(objectStream, 1, n))
       IN /\ postItems' = execute_posts(postItems, updates)
          /\ objectStream' = SubSeq(objectStream, n + 1, Len(objectStream))
                               \o PostsModifiedBy(updates)
          /\ kept' = [kept EXCEPT !.object = updates, !.prev_object = kept.object]
    /\ UNCHANGED <<replyItems, repliesAdded, lastCreate>>
    /\ UNCHANGED <<followVars, inboundVars, expandVars, pipeVars, outboxVars>>
    /\ UNCHANGED <<lastSign, lastKey, walk, lastRun, crawl>>

NextReply ==
    \/ \E u \in Users, part \in PostParts : put_post(u, part)
    \/ \E obj \in RemoteObjects : visit_create(obj)
    \/ \E n \in 1..MaxBatch : UpdateObjectStatistics(n)

----------------------------------------------------------------------------
\* expand_recipients: the recipients of an outbound activity.  recipients,
\* excluded and collected are attributes of the class RecipientCollector: the
\* collector a call of expand_recipients constructs reads and updates the
\* sets of the class, which live as long as the process that loaded the
\* module.  A collector is threaded through the operators below as a record
\* of the three sets and of the exception raised, if any.

ACTIVITY_STREAMS_PUBLIC_ADDRESS ==
    [host |-> "www.w3.org", path |-> <<"ns", "activitystreams#Public">>]

make_user_inbox_uri(user_id) ==
    [host |-> user_id.host, path |-> user_id.path \o <<"inbox">>]

make_user_followers_uri(user_id) ==
    [host |-> user_id.host, path |-> user_id.path \o <<"followers">>]

\* <<ok, username, remaining>>; ok is FALSE where the code raises ValueError.
split_user_path(user_path) ==
    IF Len(user_path) >= 2 /\ user_path[1] = "users"
    THEN <<TRUE, user_path[2], SubSeq(user_path, 3, Len(user_path))>>
    ELSE <<FALSE, "", <<>>>>

SharedInbox == [host |-> REMOTE_HOST, path |-> <<"inbox">>]

\* DictObject.resolve of a remote id: r1 is a Person with an inbox, r2 a
\* Person whose server has a shared inbox, gone answers 410, busy answers 429,
\* down answers 500, the request to slow times out (status 0), bot is a
\* Service.
RemoteDocument(id) ==
    IF id = RemoteId("r1")
    THEN [status |-> 200, type |-> "Person", inbox |-> make_user_inbox_uri(id),
          shared |-> FALSE]
    ELSE IF id = RemoteId("r2")
    THEN [status |-> 200, type |-> "Person", inbox |-> make_user_inbox_uri(id),
          shared |-> TRUE]
    ELSE IF id = RemoteId("gone")
    THEN [status |-> 410, type |-> "", inbox |-> id, shared |-> FALSE]
    ELSE IF id = RemoteId("busy")
    THEN [status |-> 429, type |-> "", inbox |-> id, shared |-> FALSE]
    ELSE IF id = RemoteId("down")
    THEN [status |-> 500, type |-> "", inbox |-> id, shared |-> FALSE]
    ELSE IF id = RemoteId("slow")
    THEN [status |-> 0, type |-> "", inbox |-> id, shared |-> FALSE]
    ELSE [status |-> 200, type |-> "Service", inbox |-> make_user_inbox_uri(id),
          shared |-> FALSE]

\* The inbox added for a Person: the shared inbox where the actor has one.
shared_inbox_or_inbox(doc) == IF doc.shared THEN SharedInbox ELSE doc.inbox

\* Follower ids in the order a query of the follower partition yields them.
FollowerOrder ==
    <<make_user_id(DOMAIN_NAME, "alice"), make_user_id(DOMAIN_NAME, "bob"),
      RemoteId("bot"), RemoteId("gone"), RemoteId("r1"), RemoteId("r2")>>

enumerate_user_followers(items, username) ==
    LET ids == { it.followerId :
                   it \in { i \in items :
                              i.pk = make_follower_partition_key(username) } }
    IN  SelectSeq(FollowerOrder, LAMBDA id : id \in ids)

Raise(c, error) == [c EXCEPT !.raised = error]

AddRecipient(c, inbox) == [c EXCEPT !.recipients = @ \cup {inbox}]

RECURSIVE resolve_inboxes(_, _, _)
RECURSIVE resolve_inboxes_of_recipient(_, _, _)

resolve_user_followers(items, c, username) ==
    resolve_inboxes(items, c, enumerate_user_followers(items, username))

resolve_internal_inboxes(items, c, path_part) ==
    LET split == split_user_path(path_part)
        username == split[2]
        remaining == split[3]
    IN  IF ~split[1] THEN Raise(c, "ValueError")
        ELSE IF username \notin Users THEN Raise(c, "NotFoundError")
        ELSE IF remaining = <<>>
        THEN AddRecipient(c, make_user_inbox_uri(make_user_id(DOMAIN_NAME, username)))
        ELSE IF remaining = <<"followers">>
        THEN resolve_user_followers(items, c, username)
        ELSE Raise(c, "ValueError")

resolve_remote_inboxes(c, recipient) ==
    LET obj == RemoteDocument(recipient)
    IN  IF obj.status = 0 THEN Raise(c, "Timeout")
        ELSE IF obj.status = 410 THEN c
        ELSE IF obj.status # 200
        THEN [c EXCEPT !.raised = "HTTPError", !.status = obj.status]
        ELSE IF obj.type = "Person" THEN AddRecipient(c, shared_inbox_or_inbox(obj))
        ELSE Raise(c, "TypeError")

resolve_inboxes_of_recipient(items, c, recipient) ==
    IF recipient \in c.excluded \/ recipient \in c.collected THEN c
    ELSE LET marked == [c EXCEPT !.collected = @ \cup {recipient}]
         IN  IF recipient.host = DOMAIN_NAME
             THEN resolve_internal_inboxes(items, marked, recipient.path)
             ELSE resolve_remote_inboxes(marked, recipient)

\* The loop of resolve_inboxes ends at the first exception.
resolve_inboxes(items, c, ids) ==
    IF ids = <<>> \/ c.raised # "" THEN c
    ELSE resolve_inboxes(items,
                         resolve_inboxes_of_recipient(items, c, Head(ids)),
                         Tail(ids))

\* An audience field of an activity: has is FALSE where the field is absent.
Absent == [has |-> FALSE, ids |-> <<>>]

Addressed(ids) == [has |-> TRUE, ids |-> ids]

resolve_audience(items, c, audience) ==
    IF audience.has THEN resolve_inboxes(items, c, audience.ids) ELSE c

Exclude(c, actor_id) == [c EXCEPT !.excluded = @ \cup {actor_id}]

collector_visit_create(items, c, create) ==
    LET excl == Exclude(c, create.actor)
        to == resolve_audience(items, excl, create.to)
        cc == resolve_audience(items, to, create.cc)
    IN  resolve_audience(items, cc, create.bcc)

collector_visit_accept(items, c, accept) ==
    resolve_inboxes(items, Exclude(c, accept.actor), <<accept.object.actor>>)

visit(items, c, activity) ==
    IF activity.type = "Create" THEN collector_visit_create(items, c, activity)
    ELSE collector_visit_accept(items, c, activity)

\* The outbound activities of a user that expansion is given.
CreateActivity(actor_id, to, cc, bcc) ==
    [type |-> "Create", actor |-> actor_id, to |-> to, cc |-> cc, bcc |-> bcc]

OtherUser(username) == CHOOSE u \in Users : u # username

ToChoices(username) ==
    LET id == make_user_id(DOMAIN_NAME, username)
    IN  { Addressed(<<ACTIVITY_STREAMS_PUBLIC_ADDRESS>>),
          Addressed(<<make_user_followers_uri(id)>>),
          Addressed(<<make_user_followers_uri(id),
                      ACTIVITY_STREAMS_PUBLIC_ADDRESS>>),
          Addressed(<<make_user_id(DOMAIN_NAME, OtherUser(username))>>),
          Addressed(<<make_user_id(DOMAIN_NAME, "nobody")>>),
          Addressed(<<RemoteId("r1")>>),
          Addressed(<<RemoteId("bot")>>) }

CcChoices(username) ==
    LET id == make_user_id(DOMAIN_NAME, username)
    IN  { Absent,
          Addressed(<<make_user_followers_uri(id)>>),
          Addressed(<<id>>),
          Addressed(<<ACTIVITY_STREAMS_PUBLIC_ADDRESS>>) }

BccChoices == { Absent, Addressed(<<RemoteId("r2")>>) }

Creates(username) ==
    { CreateActivity(make_user_id(DOMAIN_NAME, username), to, cc, bcc) :
        to \in ToChoices(username), cc \in CcChoices(username),
        bcc \in BccChoices }

Accepts(username) ==
    { Accept_create(make_user_id(DOMAIN_NAME, username),
                    FollowActivity("x", RemoteId(r),
                                   make_user_id(DOMAIN_NAME, username), TRUE)) :
        r \in RemoteActors \cup {"gone"} }

\* The ids an activity is addressed to.
Range(seq) == { seq[i] : i \in 1..Len(seq) }

AddressesOf(activity) ==
    IF activity.type = "Create"
    THEN Range(activity.to.ids) \cup Range(activity.cc.ids)
            \cup Range(activity.bcc.ids)
    ELSE {}

NewCollector == [recipients |-> {}, excluded |-> {ACTIVITY_STREAMS_PUBLIC_ADDRESS},
                 collected |-> {}, raised |-> "", status |-> 0]

\* An except clause that raises every exception as it is.
raised_as_it_is(raised, status) == raised

\* The except clauses the three pipeline steps share: an HTTPError with status
\* 429 and a Timeout are raised again as TransientError, anything else is
\* raised as it is.  TooManyAccessError is a subclass of TransientError.
translate_activity_error(raised, status) ==
    IF raised = "HTTPError" /\ status = 429 THEN "TransientError"
    ELSE IF raised = "Timeout" THEN "TransientError"
    ELSE raised

expand_recipients_error(raised, status) ==
    IF raised = "HTTPError" /\ status = 429 THEN "TransientError"
    ELSE IF raised = "Timeout" THEN "TransientError"
    ELSE raised

deliver_activity_error(raised, status) ==
    IF raised = "Timeout" THEN "TransientError"
    ELSE IF raised = "HTTPError" /\ status = 429 THEN "TransientError"
    ELSE raised

\* The except clauses of the table wrappers around a DynamoDB call.
table_error(code) ==
    IF code \in {"ProvisionedThroughputExceededException", "RequestLimitExceeded"}
    THEN "TooManyAccessError"
    ELSE code

StoreOutcomes ==
    {"ok", "ProvisionedThroughputExceededException", "RequestLimitExceeded"}

NoExpand == [actor |-> "", addresses |-> {}, returned |-> {}, raised |-> "",
             cold |-> FALSE, store |-> "ok", alone |-> {}, alone_raised |-> "",
             accepted |-> [host |-> "", path |-> <<>>]]

\* lambda_handler of expand_recipients for the activity of a user: it looks
\* the user up, which fails where the table refuses the read (store), and
\* calls expand_recipients.
ExpandRecipientsWith(username, activity, store) ==
    /\ expansions < MaxExpansions
    /\ LET visitor == [recipients |-> recipients, excluded |-> excluded,
                       collected |-> collected, raised |-> "", status |-> 0]
           done == IF store = "ok" THEN visit(followerItems, visitor, activity)
                   ELSE Raise(visitor, table_error(store))
           \* History: what a process that served nothing before returns.
           alone == IF store = "ok" THEN visit(followerItems, NewCollector, activity)
                    ELSE Raise(NewCollector, table_error(store))
       IN  /\ recipients' = done.recipients
           /\ excluded' = done.excluded
           /\ collected' = done.collected
           /\ lastExpand' =
                [actor |-> username,
                 addresses |-> AddressesOf(activity),
                 returned |-> IF done.raised = "" THEN done.recipients ELSE {},
                 raised |-> expand_recipients_error(done.raised, done.status),
                 cold |-> visitor = NewCollector,
                 store |-> store,
                 alone |-> IF alone.raised = "" THEN alone.recipients ELSE {},
                 alone_raised |-> expand_recipients_error(alone.raised,
                                                          alone.status),
                 \* History: the actor of the activity an Accept accepts.
                 accepted |-> IF activity.type = "Accept"
                              THEN activity.object.actor
                              ELSE NoExpand.accepted]
    /\ expansions' = expansions + 1
    /\ UNCHANGED <<followVars, inboundVars, replyVars, pipeVars, outboxVars>>
    /\ UNCHANGED libVars

ExpandRecipients(username, activity) ==
    ExpandRecipientsWith(username, activity, "ok")

\* The process is replaced by a new one, which loads the module anew.
ColdStart ==
    /\ <<recipients, excluded, collected>> #
          <<NewCollector.recipients, NewCollector.excluded, NewCollector.collected>>
    /\ recipients' = NewCollector.recipients
    /\ excluded' = NewCollector.excluded
    /\ collected' = NewCollector.collected
    /\ UNCHANGED <<lastExpand, expansions>>
    /\ UNCHANGED <<followVars, inboundVars, replyVars, pipeVars, outboxVars>>
    /\ UNCHANGED libVars

NextExpand ==
    \/ \E u \in Users : \E a \in Creates(u) : ExpandRecipients(u, a)
    \/ \E u \in Users : \E a \in Accepts(u) : ExpandRecipients(u, a)
    \/ ColdStart

\* Follower edges the user table may hold when an activity is expanded.
FollowerCandidates ==
    { FollowerItem(make_follower_key(e[1], e[2]),
                   FollowActivity("x", e[2], make_user_id(DOMAIN_NAME, e[1]), TRUE)) :
        e \in { <<"alice", RemoteId("r1")>>, <<"alice", RemoteId("r2")>>,
                <<"alice", RemoteId("gone")>>,
                <<"alice", make_user_id(DOMAIN_NAME, "alice")>>,
                <<"bob", make_user_id(DOMAIN_NAME, "alice")>> } }

----------------------------------------------------------------------------
\* deliver_activity: the delivery of one activity to one recipient.

\* An activity as it is handed to the delivery; ctx is FALSE where "@context"
\* is missing.
OutboundActivity(id, actor_id, ctx) ==
    [type |-> "Create", id |-> id, actor |-> actor_id, context |-> ctx]

is_deliverable(activity) == activity.context

\* <<ok, unique part>>; ok is FALSE where the code raises ValueError.
get_object_id_from_activity_id(activity_id) ==
    IF Len(activity_id.path) >= 4 /\ activity_id.path[1] = "users"
          /\ activity_id.path[3] = "activities"
    THEN <<TRUE, activity_id.path[4]>>
    ELSE <<FALSE, "">>

make_user_outbox_key(username, unique_part) ==
    <<"outbox", "users", username, unique_part>>

\* The body save_object puts and the body deliver_activity posts:
\* json.dumps(activity.to_dict()).
dumps(activity) == to_dict(activity, TRUE)

\* put_object: the blob under a key is replaced.
put_object(blobs, saved) ==
    { b \in blobs : \A blob \in saved : blob.key # b.key } \cup saved

\* What deliver_activity does for an activity when the user table answers
\* store and the inbox of the recipient answers status (0: the request times
\* out): the exception it ends with, the outbox blob it saved the activity
\* as, and whether it sent the request.
deliver_activity(activity, store, status) ==
    LET parsed == parse_user_id(activity.actor)
        object_id == get_object_id_from_activity_id(activity.id)
        key == make_user_outbox_key(parsed[3], object_id[2])
        Stopped(error) == [raised |-> error, saved |-> {}, posted |-> FALSE]
    IN  IF ~is_deliverable(activity) THEN Stopped("CorruptedDataError")
        ELSE IF ~parsed[1] THEN Stopped("ValueError")
        ELSE IF parsed[2] # DOMAIN_NAME THEN Stopped("BadConfigurationError")
        ELSE IF ~object_id[1] THEN Stopped("ValueError")
        ELSE IF store # "ok" THEN Stopped(table_error(store))
        ELSE IF parsed[3] \notin Users THEN Stopped("NotFoundError")
        ELSE [raised |-> IF status = 0
                         THEN deliver_activity_error("Timeout", status)
                         ELSE IF status >= 400
                         THEN deliver_activity_error("HTTPError", status)
                         ELSE "",
              saved |-> {[key |-> key, body |-> dumps(activity)]},
              posted |-> TRUE]

\* Activities handed to the delivery: the activities of the users, and ones
\* that lack "@context", belong to a remote actor or to nobody, or have the
\* id of a post.
DeliveredActivities ==
    { OutboundActivity(UserObjectId(DOMAIN_NAME, u, "activities", "A1"),
                       make_user_id(DOMAIN_NAME, u), TRUE) :
        u \in Users \cup {"nobody"} }
    \cup { OutboundActivity(UserObjectId(DOMAIN_NAME, "alice", "activities", "A1"),
                            make_user_id(DOMAIN_NAME, "alice"), FALSE),
 OutboundActivity(UserObjectId(REMOTE_HOST, "r1", "activities", "A1"),
                            RemoteId("r1"), TRUE),
           OutboundActivity(UserObjectId(DOMAIN_NAME, "alice", "posts", "A1"),
                            make_user_id(DOMAIN_NAME, "alice"), TRUE) }

DeliveryInboxes == {SharedInbox}

\* Answers of an inbox: accepted, gone, too many requests, a server error,
\* and no answer in time (0).
InboxResponses == {202, 410, 429, 500, 0}

NoDeliver == [recipient |-> SharedInbox, store |-> "ok", status |-> -1,
              raised |-> ""]

\* lambda_handler of deliver_activity.
DeliverActivity(activity, recipient, store, status) ==
    /\ deliveries < MaxDeliveries
    /\ LET done == deliver_activity(activity, store, status)
       IN  /\ outboxBlobs' = put_object(outboxBlobs, done.saved)
           /\ lastDeliver' = [recipient |-> recipient,
                              store |-> IF done.raised = table_error(store)
                                        THEN store ELSE "ok",
                              status |-> IF done.posted THEN status ELSE -1,
                              raised |-> done.raised]
    /\ deliveries' = deliveries + 1
    /\ UNCHANGED <<lastFailure, delivery, inboxPosts>>
    /\ UNCHANGED <<followVars, inboundVars, replyVars, expandVars, outboxVars>>
    /\ UNCHANGED libVars

\* The steps of an invocation of deliver_activity, for invocations that run
\* at the same time: the event is received and the user is looked up, the
\* activity is saved in the outbox, the request is made to the recipient.
NoDelivery ==
    [at |-> "idle", activity |-> OutboundActivity(NoReference, NoReference, FALSE),
     recipient |-> NoReference, raised |-> ""]

\* Inboxes activities are delivered to at the same time.
ParallelInboxes == {SharedInbox, make_user_inbox_uri(RemoteId("r1"))}

deliver_receive(p, activity, recipient, store) ==
    /\ delivery[p].at = "idle"
    /\ LET done == deliver_activity(activity, store, 202)
       IN  delivery' =
              [delivery EXCEPT ![p] =
                  [at |-> IF done.posted THEN "found" ELSE "returned",
                   activity |-> activity, recipient |-> recipient,
                   raised |-> done.raised]]
    /\ UNCHANGED <<outboxBlobs, lastDeliver, lastFailure, deliveries, inboxPosts>>
    /\ UNCHANGED <<followVars, inboundVars, replyVars, expandVars, outboxVars>>
    /\ UNCHANGED libVars

deliver_save(p) ==
    /\ delivery[p].at = "found"
    /\ outboxBlobs' =
          put_object(outboxBlobs,
                     deliver_activity(delivery[p].activity, "ok", 202).saved)
    /\ delivery' = [delivery EXCEPT ![p].at = "saved"]
    /\ UNCHANGED <<lastDeliver, lastFailure, deliveries, inboxPosts>>
    /\ UNCHANGED <<followVars, inboundVars, replyVars, expandVars, outboxVars>>
    /\ UNCHANGED libVars

\* A request that goes to the shared inbox whatever the endpoint is.
post_to_shared_inbox(made, p, endpoint, body) ==
    made \cup {[by |-> p, endpoint |-> SharedInbox, body |-> body]}

\* activity_streams.post: a signed request with the body to the endpoint.
activity_streams_post(made, p, endpoint, body) ==
    made \cup {[by |-> p, endpoint |-> endpoint, body |-> body]}

deliver_post(p, status) ==
    /\ delivery[p].at = "saved"
    /\ inboxPosts' = activity_streams_post(inboxPosts, p, delivery[p].recipient,
                                      dumps(delivery[p].activity))
    /\ delivery' =
          [delivery EXCEPT
              ![p].at = "returned",
              ![p].raised =
                  deliver_activity(delivery[p].activity, "ok", status).raised]
    /\ UNCHANGED <<outboxBlobs, lastDeliver, lastFailure, deliveries>>
    /\ UNCHANGED <<followVars, inboundVars, replyVars, expandVars, outboxVars>>
    /\ UNCHANGED libVars

NoFailure == [raised |-> "", status |-> 0]

\* What stops translate_inbound_activity for a Create: the answer to the
\* request that resolves the created object (0: it times out), or the code
\* with which the object table refuses find_user_post.
DispatchFailures ==
    { [raised |-> "HTTPError", status |-> st] : st \in {429, 500} }
    \cup { [raised |-> "Timeout", status |-> 0] }
    \cup { [raised |-> code, status |-> 0] : code \in StoreOutcomes \ {"ok"} }

\* translate_inbound_activity for a Create that visit_create cannot finish:
\* translate_activity classifies the exception, nothing is written.
visit_create_failing(failure) ==
    /\ lastCreate' =
          translate_activity_error(table_error(failure.raised), failure.status)
    /\ lastFailure' = failure
    /\ UNCHANGED <<postItems, replyItems, objectStream, repliesAdded>>
    /\ UNCHANGED <<outboxBlobs, lastDeliver, deliveries, delivery, inboxPosts>>
    /\ UNCHANGED <<followVars, inboundVars, expandVars, outboxVars>>
    /\ UNCHANGED libVars

\* Activities of a user addressed to one remote actor.
PipelineCreates(username) ==
    { CreateActivity(make_user_id(DOMAIN_NAME, username),
                     Addressed(<<RemoteId(r)>>), Absent, Absent) :
        r \in {"r1", "gone", "busy", "down", "slow"} }

NextPipeline ==
    \/ \E f \in DispatchFailures : visit_create_failing(f)
    \/ \E a \in PipelineCreates("alice"), s \in StoreOutcomes :
          ExpandRecipientsWith("alice", a, s)
    \/ ColdStart
    \/ \E a \in DeliveredActivities, r \in DeliveryInboxes, s \in StoreOutcomes,
          st \in InboxResponses : DeliverActivity(a, r, s, st)

----------------------------------------------------------------------------
\* The activities in the object table (libmumble.object_table), and the two
\* steps that end the outbound workflow: push_staged_activity and
\* update_last_activity.

\* A time is a number of ticks of the clock; TicksPerMonth ticks make a month.
TicksPerMonth == 2
\* The clock is observed up to this time.
MaxClock == 4
\* Invocations of push_staged_activity that are followed.
MaxPushes == 2

\* libmumble.object_table: "yyyy-mm" and "ddTHH:MM:ss.SSSSSS" of a time.
format_yyyymm(time) == time \div TicksPerMonth

format_dd_hhmmss_ssssss(time) == time % TicksPerMonth

\* <<ok, domain, username, unique part>>; ok is FALSE where the code raises
\* ValueError.
parse_user_activity_id(activity_id) ==
    IF activity_id.host # "" /\ Len(activity_id.path) = 4
          /\ activity_id.path[1] = "users" /\ activity_id.path[3] = "activities"
    THEN <<TRUE, activity_id.host, activity_id.path[2], activity_id.path[4]>>
    ELSE <<FALSE, "", "", 0>>

make_monthly_user_activity_partition_key(username, month) ==
    <<"activity:", username, month>>

\* pk: "activity:{username}:{yyyy-mm}", sk: "{ddTHH:MM:ss.SSSSSS}:{unique part}"
make_activity_key(username, unique_part, created_at) ==
    [pk |-> make_monthly_user_activity_partition_key(
                username, format_yyyymm(created_at)),
     sk |-> <<format_dd_hhmmss_ssssss(created_at), unique_part>>]

\* An activity of a user as it is staged; public is what is_public() answers.
StagedActivity(id, actor_id, public) ==
    [type |-> "Create", id |-> id, actor |-> actor_id, public |-> public]

ActivityItem(key, activity, username, time) ==
    [pk |-> key.pk, sk |-> key.sk, id |-> activity.id, username |-> username,
     createdAt |-> time, isPublic |-> activity.public]

\* ObjectTable.put_activity called at a time, when the table answers store:
\* the exception it ends with and the items it leaves.
put_activity(items, activity, time, store) ==
    LET parsed == parse_user_activity_id(activity.id)
        key == make_activity_key(parsed[3], parsed[4], time)
        Stopped(error) == [raised |-> error, items |-> items]
    IN  IF ~parsed[1] THEN Stopped("ValueError")
        ELSE IF store # "ok" THEN Stopped(table_error(store))
        ELSE IF ItemsAt(items, key) # {} THEN Stopped("DuplicateItemError")
        ELSE [raised |-> "",
              items |-> put_item(items,
                           ActivityItem(key, activity, parsed[3], time))]

OBJECTS_BUCKET_NAME == "objects"
Buckets == {OBJECTS_BUCKET_NAME, "elsewhere"}
\* How load_activity ends for the staged blob.
LoadOutcomes == {"ok", "NotFoundError"}

\* Unique parts of the activities that are pushed.
PushedParts == {101}

\* Staged activities: a public one of alice, and one with the id of a post.
PushedActivities ==
    { StagedActivity(UserObjectId(DOMAIN_NAME, "alice", "activities", part),
                     make_user_id(DOMAIN_NAME, "alice"), part = 101) :
        part \in PushedParts }
    \cup { StagedActivity(UserObjectId(DOMAIN_NAME, "alice", "posts", 101),
                          make_user_id(DOMAIN_NAME, "alice"), TRUE) }

RecordsOf(items, activity_id) == { it \in items : it.id = activity_id }

NoPut == [id |-> [host |-> "", path |-> <<>>], raised |-> "", recorded |-> FALSE]

\* A cursor that was not given.
None == <<>>

\* A link of a page: the URI it starts with, the cursor parameter and the
\* cursor; NoLink where the page has no such member.
NoLink == [uri |-> "", query |-> "", cursor |-> None]

\* The answer of a request that raised.
Failed(error) ==
    [raised |-> error, type |-> "", orderedItems |-> <<>>, next |-> NoLink,
     prev |-> NoLink]

\* A request for a collection or one of its pages.
Request(endpoint, username, is_page, before, after) ==
    [endpoint |-> endpoint, username |-> username, page |-> is_page,
     before |-> before, after |-> after]

\* No request was answered since the object table was last written.
NoPage == [request |-> Request("", "", FALSE, None, None), answer |-> Failed("")]

\* lambda_handler of push_staged_activity.
PushStagedActivity(bucket, activity, load, store) ==
    LET done == put_activity(activityItems, activity, now, store)
        raised == IF bucket # OBJECTS_BUCKET_NAME THEN "BadConfigurationError"
                  ELSE IF load # "ok" THEN load
                  ELSE done.raised
    IN  /\ pushes < MaxPushes
        /\ pushes' = pushes + 1
        /\ activityItems' = IF raised = done.raised THEN done.items
                            ELSE activityItems
        /\ lastPut' = [id |-> activity.id, raised |-> raised,
                       recorded |-> RecordsOf(activityItems, activity.id) # {}]
        /\ lastPage' = NoPage
        /\ UNCHANGED <<userTimes, now, lastUpdate, lastFinger>>
        /\ UNCHANGED <<followVars, inboundVars, replyVars, expandVars, pipeVars>>
        /\ UNCHANGED libVars

\* Time passes: to the next tick, or to the first tick of the next month.
Tick ==
    /\ \E time \in {now + 1, (format_yyyymm(now) + 1) * TicksPerMonth} :
          /\ time <= MaxClock
          /\ now' = time
    /\ UNCHANGED <<activityItems, userTimes, lastPut, lastUpdate, lastPage, pushes,
                   lastFinger>>
    /\ UNCHANGED <<followVars, inboundVars, replyVars, expandVars, pipeVars>>
    /\ UNCHANGED libVars

\* UserTable.update_last_user_activity at a time: a conditional update of the
\* user record, which sets the attribute updatedAt.
update_last_user_activity(times, username, time) ==
    IF username \in DOMAIN times
    THEN [raised |-> "",
          times |-> [times EXCEPT ![username].updatedAt = time]]
    ELSE [raised |-> "NotFoundError", times |-> times]

\* Actors whose last activity is updated: the users, an account that is not
\* in the user table, and an account of another server.
UpdatedActors ==
    { make_user_id(DOMAIN_NAME, u) : u \in Users \cup {"nobody"} }
    \cup {RemoteId("r1")}

NoUpdate == [username |-> "", raised |-> "", at |-> 0]

\* lambda_handler of update_last_activity (split_user_id leaves a remainder
\* that is not used).  The history tells the time of an update that succeeded.
UpdateLastActivity(actor_id, store) ==
    LET parsed == parse_user_id(actor_id)
        username == parsed[3]
        done == update_last_user_activity(userTimes, username, now)
        raised == IF ~parsed[1] THEN "ValueError"
                  ELSE IF parsed[2] # DOMAIN_NAME THEN "BadConfigurationError"
                  ELSE IF store # "ok" THEN table_error(store)
                  ELSE IF username \notin DOMAIN userTimes THEN "NotFoundError"
                  ELSE done.raised
    IN  /\ userTimes' = IF raised = "" THEN done.times ELSE userTimes
        /\ lastUpdate' = [username |-> username, raised |-> raised,
                          at |-> IF raised = "" THEN now ELSE 0]
        /\ UNCHANGED <<activityItems, now, lastPut, lastPage, pushes, lastFinger>>
        /\ UNCHANGED <<followVars, inboundVars, replyVars, expandVars, pipeVars>>
        /\ UNCHANGED libVars

\* The table of activities before the steps are followed: count activities of
\* alice with the unique parts 1..count, per_tick of them created at each
\* tick from 0 on; where mixed, every fourth one is not public.
StoredActivity(part, per_tick, mixed) ==
    LET time == (part - 1) \div per_tick
    IN  ActivityItem(
            make_activity_key("alice", part, time),
            StagedActivity(UserObjectId(DOMAIN_NAME, "alice", "activities", part),
                           make_user_id(DOMAIN_NAME, "alice"),
                           ~(mixed /\ part % 4 = 0)),
            "alice", time)

StoredActivities(count, per_tick, mixed) ==
    { StoredActivity(part, per_tick, mixed) : part \in 1..count }

\* <<count, per_tick, mixed>> of the tables the steps start from, and of the
\* tables pages are requested from.
FewStored == {<<0, 30, FALSE>>, <<1, 30, FALSE>>}
ManyStored == {<<0, 30, FALSE>>, <<20, 30, FALSE>>, <<27, 10, TRUE>>}

----------------------------------------------------------------------------
\* The paginated collections: get_outbox_activities, get_followers and
\* get_post_replies.

\* get_outbox_activities: DEFAULT_PAGE_SIZE, which PAGE_SIZE defaults to.
DEFAULT_PAGE_SIZE == 20

\* itertools.islice(generator, size) and list.reverse().
Take(seq, size) == SubSeq(seq, 1, IF Len(seq) < size THEN Len(seq) ELSE size)

Reverse(seq) == [i \in 1..Len(seq) |-> seq[Len(seq) + 1 - i]]

\* The members of a set in the ascending order a query yields them.
RECURSIVE SetToSeq(_)
SetToSeq(S) ==
    IF S = {} THEN <<>>
    ELSE LET x == CHOOSE x \in S : TRUE
         IN  <<x>> \o SetToSeq(S \ {x})

Sorted(S, Less(_, _)) == SortSeq(SetToSeq(S), Less)

\* <<username, month>> of "activity:{username}:{yyyy-mm}"
parse_activity_partition_key(pk) == <<pk[2], pk[3]>>

\* The order of the primary keys of activities: by the month of the
\* partition, then by the sort key "{ddTHH:MM:ss.SSSSSS}:{unique part}".
KeyBefore(a, b) ==
    LET a_month == parse_activity_partition_key(a.pk)[2]
        b_month == parse_activity_partition_key(b.pk)[2]
    IN  \/ a_month < b_month
        \/ /\ a_month = b_month
           /\ \/ a.sk[1] < b.sk[1]
              \/ a.sk[1] = b.sk[1] /\ a.sk[2] < b.sk[2]

\* "{yyyy-mm}-{ddTHH:MM:ss.SSSSSS}:{unique part}"
serialize_activity_key(key) ==
    <<parse_activity_partition_key(key.pk)[2], key.sk[1], key.sk[2]>>

\* The key of no cursor.
NoKey == [pk |-> <<>>, sk |-> <<>>]

\* A key of the first month, whatever the month of the cursor is.
deserialize_into_first_month(key, username) ==
    IF Len(key) = 3
    THEN <<TRUE, [pk |-> make_monthly_user_activity_partition_key(username, 0),
                  sk |-> <<key[2], key[3]>>]>>
    ELSE <<FALSE, NoKey>>

\* <<ok, key>>; ok is FALSE where the code raises ValueError.
deserialize_activity_key(key, username) ==
    IF Len(key) = 3
    THEN <<TRUE, [pk |-> make_monthly_user_activity_partition_key(username, key[1]),
                  sk |-> <<key[2], key[3]>>]>>
    ELSE <<FALSE, NoKey>>

\* The two patterns of serialize_activity_key: the partition key is the one
\* of a month of activities, the sort key has a time and a unique part.
is_activity_key(key) ==
    /\ Len(key.pk) = 3 /\ key.pk[1] = "activity:"
    /\ Len(key.sk) = 2

\* sk: "00T00:00:00.000000:@", which is before the sort key of any activity.
make_oldest_user_activity_key(username, times) ==
    [pk |-> make_monthly_user_activity_partition_key(
                username, format_yyyymm(times.createdAt)),
     sk |-> <<-1, 0>>]

\* ObjectTable.enumerate_user_activities: the public activities in the
\* monthly partitions of the user, from the month of the last activity (or of
\* before) down to the month of the creation of the user, or from the month
\* of after up to the month of the last activity.
enumerate_user_activities(items, username, times, before, after) ==
    LET earliest_month == format_yyyymm(times.createdAt)
        latest_month == format_yyyymm(times.lastActivityAt)
        Month(it) == parse_activity_partition_key(it.pk)[2]
        public == { it \in items : /\ parse_activity_partition_key(it.pk)[1] = username
                                   /\ it.isPublic }
    IN  IF before # NoKey
        THEN Reverse(Sorted({ it \in public : /\ Month(it) >= earliest_month
                                              /\ KeyBefore(it, before) },
                            KeyBefore))
        ELSE IF after # NoKey
        THEN Sorted({ it \in public : /\ Month(it) <= latest_month
                                      /\ KeyBefore(after, it) },
                    KeyBefore)
        ELSE Reverse(Sorted({ it \in public : /\ Month(it) >= earliest_month
                                              /\ Month(it) <= latest_month },
                            KeyBefore))

\* get_outbox_page: the metadata of the activities of a page, or ValueError.
get_outbox_page(items, username, times, before, after) ==
    LET before_key == IF before # None
                      THEN deserialize_activity_key(before, username)
                      ELSE <<TRUE, NoKey>>
        after_key == IF after # None
                     THEN deserialize_activity_key(after, username)
                     ELSE <<TRUE, NoKey>>
        activities == Take(enumerate_user_activities(
                               items, username, times, before_key[2], after_key[2]),
                           DEFAULT_PAGE_SIZE)
    IN  IF ~before_key[1] \/ ~after_key[1]
        THEN [raised |-> "ValueError", activities |-> <<>>]
        ELSE [raised |-> "",
              activities |-> IF after # None THEN Reverse(activities)
                             ELSE activities]

Link(uri, query, cursor) == [uri |-> uri, query |-> query, cursor |-> cursor]

ActivityIds(activities) == [i \in 1..Len(activities) |-> activities[i].id]

make_collection_page(ordered_items, next, prev) ==
    [raised |-> "", type |-> "OrderedCollectionPage",
     orderedItems |-> ordered_items, next |-> next, prev |-> prev]

Last(seq) == seq[Len(seq)]

get_first_outbox_page(items, username, times) ==
    LET page == get_outbox_page(items, username, times, None, None)
    IN  IF Len(page.activities) = 0
        THEN make_collection_page(<<>>, NoLink, NoLink)
        ELSE make_collection_page(
                 ActivityIds(page.activities),
                 Link("outbox", "before",
                      serialize_activity_key(Last(page.activities))),
                 NoLink)

\* The links of a non-empty page start with "f" and the URI of the outbox.
get_outbox_page_before(items, username, times, before) ==
    LET page == get_outbox_page(items, username, times, before, None)
    IN  IF page.raised # "" THEN Failed(page.raised)
        ELSE IF Len(page.activities) = 0
        THEN make_collection_page(
                 <<>>, NoLink,
                 Link("outbox", "after",
                      serialize_activity_key(
                          make_oldest_user_activity_key(username, times))))
        ELSE make_collection_page(
                 ActivityIds(page.activities),
                 Link("foutbox", "before",
                      serialize_activity_key(Last(page.activities))),
                 Link("foutbox", "after",
                      serialize_activity_key(Head(page.activities))))

get_outbox_page_after(items, username, times, after) ==
    LET page == get_outbox_page(items, username, times, None, after)
    IN  IF page.raised # "" THEN Failed(page.raised)
        ELSE IF Len(page.activities) = 0
        THEN make_collection_page(<<>>, Link("outbox", "", None), NoLink)
        ELSE make_collection_page(
                 ActivityIds(page.activities),
                 Link("outbox", "before",
                      serialize_activity_key(Last(page.activities))),
                 Link("outbox", "after",
                      serialize_activity_key(Head(page.activities))))

\* lambda_handler of get_outbox_activities.
get_outbox_activities(items, times, username, is_page, before, after) ==
    IF after # None /\ before # None THEN Failed("BadRequestError")
    ELSE IF username \notin DOMAIN times THEN Failed("NotFoundError")
    ELSE IF ~is_page
    THEN [Failed("") EXCEPT !.type = "OrderedCollection"]
    ELSE LET page ==
               IF before # None
               THEN get_outbox_page_before(items, username, times[username], before)
               ELSE IF after # None
               THEN get_outbox_page_after(items, username, times[username], after)
               ELSE get_first_outbox_page(items, username, times[username])
         IN  IF page.raised = "ValueError" THEN Failed("BadRequestError")
             ELSE page

\* Cursors of requests to the outbox: keys of activities there may be, the
\* key before every activity, and a string that is no serialized key (its
\* unique part holds a colon).
OutboxCursors ==
    { <<0, 0, 1>>, <<0, 1, 20>>, <<1, 0, 21>>, <<2, 0, 101>>, <<0, -1, 0>>,
      <<0, 0, 1, 1>> }

GetOutboxActivities(username, is_page, before, after) ==
    /\ lastPage' = [request |-> Request("outbox", username, is_page, before, after),
                    answer |-> get_outbox_activities(
                                   activityItems, userTimes, username, is_page,
                                   before, after)]
    /\ UNCHANGED <<activityItems, userTimes, now, lastPut, lastUpdate, pushes,
                   lastFinger>>
    /\ UNCHANGED <<followVars, inboundVars, replyVars, expandVars, pipeVars>>
    /\ UNCHANGED libVars

----------------------------------------------------------------------------
\* ObjectTable.enumerate_user_activities, query by query.

\* items_per_query of the enumeration that is followed.
ItemsPerQuery == 2

\* The order of sort keys within one partition.
SkBefore(a, b) == a[1] < b[1] \/ (a[1] = b[1] /\ a[2] < b[2])

PrimaryKey(item) == [pk |-> item.pk, sk |-> item.sk]

\* A query that tells no LastEvaluatedKey once it has evaluated nothing more
\* than it returns.
last_key_unless_empty(returned, evaluated, limit) ==
    IF Len(returned) > 0 /\ Len(evaluated) = limit
    THEN PrimaryKey(Last(evaluated)) ELSE NoKey

\* Table.query: LastEvaluatedKey is there when the query stopped at Limit.
last_evaluated_key(returned, evaluated, limit) ==
    IF Len(evaluated) = limit THEN PrimaryKey(Last(evaluated)) ELSE NoKey

\* Table.query on one partition with FilterExpression isPublic = True: the
\* items after the exclusive start key are read in the direction of
\* ScanIndexForward, Limit of them are evaluated, and those that pass the
\* filter are returned.
Ahead(items, pk, forward, start) ==
    { it \in items :
        /\ it.pk = pk
        /\ \/ start = NoKey
           \/ IF forward THEN SkBefore(start.sk, it.sk)
              ELSE SkBefore(it.sk, start.sk) }

table_query(items, pk, forward, start, limit) ==
    LET ahead == Ahead(items, pk, forward, start)
        ordered == IF forward THEN Sorted(ahead, KeyBefore)
                   ELSE Reverse(Sorted(ahead, KeyBefore))
        evaluated == Take(ordered, limit)
        returned == SelectSeq(evaluated, LAMBDA it : it.isPublic)
    IN  [Items |-> returned,
         LastEvaluatedKey |-> last_evaluated_key(returned, evaluated, limit)]

NoWalk == [at |-> "idle", before |-> NoKey, after |-> NoKey,
           chronological |-> FALSE, month |-> 0, start |-> NoKey,
           yielded |-> <<>>, left |-> <<>>]

\* The months the iterator still yields from a month on.
InWalk(times, chronological, month) ==
    IF chronological THEN month <= format_yyyymm(times.lastActivityAt)
    ELSE month >= format_yyyymm(times.createdAt)

\* enumerate_user_activities up to the first query: the checks of the
\* cursors and the choice of the month iterator.
StartWalk(username, before, after) ==
    /\ walk.at = "idle"
    /\ LET cursor == IF before # NoKey THEN before ELSE after
           parsed == parse_activity_partition_key(cursor.pk)
           chronological == before = NoKey /\ after # NoKey
           month == IF cursor # NoKey THEN parsed[2]
                    ELSE format_yyyymm(userTimes[username].lastActivityAt)
           begun == [NoWalk EXCEPT !.before = before, !.after = after,
                                   !.chronological = chronological,
                                   !.month = month, !.start = cursor]
       IN  walk' =
             IF before # NoKey /\ after # NoKey
             THEN [begun EXCEPT !.at = "ValueError"]
             ELSE IF cursor # NoKey /\ parsed[1] # username
             THEN [begun EXCEPT !.at = "ValueError"]
             ELSE IF InWalk(userTimes[username], chronological, month)
             THEN [begun EXCEPT !.at = "query"]
             ELSE [begun EXCEPT !.at = "done"]
    /\ UNCHANGED <<lastSign, lastKey, lastRun, crawl, kept>>
    /\ UNCHANGED <<followVars, inboundVars, replyVars, expandVars, pipeVars,
                   outboxVars>>

\* A generator that returns for good at the first query without items.
QueryWalkUntilEmpty(username) ==
    /\ walk.at = "query"
    /\ LET answer == table_query(activityItems,
                        make_monthly_user_activity_partition_key(
                            username, walk.month),
                        walk.chronological, walk.start, ItemsPerQuery)
           got == [i \in 1..Len(answer.Items) |->
                     serialize_activity_key(answer.Items[i])]
           month == IF walk.chronological THEN walk.month + 1 ELSE walk.month - 1
       IN  walk' =
             IF Len(answer.Items) = 0
             THEN [walk EXCEPT !.at = "done"]
             ELSE IF answer.LastEvaluatedKey # NoKey
             THEN [walk EXCEPT !.yielded = @ \o got,
                               !.start = answer.LastEvaluatedKey]
             ELSE [walk EXCEPT
                     !.yielded = @ \o got,
                     !.left = Append(@, walk.month),
                     !.start = NoKey,
                     !.month = month,
                     !.at = IF InWalk(userTimes[username], walk.chronological,
                                      month)
                            THEN "query" ELSE "done"]
    /\ UNCHANGED <<lastSign, lastKey, lastRun, crawl, kept>>
    /\ UNCHANGED <<followVars, inboundVars, replyVars, expandVars, pipeVars,
                   outboxVars>>

\* One turn of the loop of enumerate_monthly_user_activities: a query, the
\* items it returned are yielded, and either the next query starts at the
\* LastEvaluatedKey or the month is left for the next one of the iterator,
\* which is queried without a cursor.
QueryWalk(username) ==
    /\ walk.at = "query"
    /\ LET forward == walk.chronological
           answer == table_query(activityItems,
                        make_monthly_user_activity_partition_key(
                            username, walk.month),
                        forward, walk.start, ItemsPerQuery)
           got == [i \in 1..Len(answer.Items) |-> serialize_activity_key(answer.Items[i])]
           month == IF walk.chronological THEN walk.month + 1 ELSE walk.month - 1
       IN  walk' =
             IF answer.LastEvaluatedKey # NoKey
             THEN [walk EXCEPT !.yielded = @ \o got,
                               !.start = answer.LastEvaluatedKey]
             ELSE [walk EXCEPT
                     !.yielded = @ \o got,
                     !.left = Append(@, walk.month),
                     !.start = NoKey,
                     !.month = month,
                     !.at = IF InWalk(userTimes[username], walk.chronological,
                                      month)
                            THEN "query" ELSE "done"]
    /\ UNCHANGED <<lastSign, lastKey, lastRun, crawl, kept>>
    /\ UNCHANGED <<followVars, inboundVars, replyVars, expandVars, pipeVars,
                   outboxVars>>

\* The last month of the clock, and a time of a month.
MaxMonth == MaxClock \div TicksPerMonth

WalkTime(month, tick) == month * TicksPerMonth + tick

\* <<unique part, month, tick, public>> of the activities of alice a table
\* may hold when it is enumerated.
WalkPool ==
    { <<1, 0, 0, TRUE>>, <<2, 0, 0, FALSE>>, <<3, 0, 1, FALSE>>,
      <<4, 0, 1, TRUE>>, <<5, 1, 0, TRUE>>, <<7, MaxMonth, 0, TRUE>> }

WalkItem(e) ==
    ActivityItem(
        make_activity_key("alice", e[1], WalkTime(e[2], e[3])),
        StagedActivity(UserObjectId(DOMAIN_NAME, "alice", "activities", e[1]),
                       make_user_id(DOMAIN_NAME, "alice"), e[4]),
        "alice", WalkTime(e[2], e[3]))

\* Cursors of an enumeration: keys of activities there may be, the key before
\* every activity of the first month, and a key of another user.
WalkCursors ==
    { make_activity_key("alice", e[1], WalkTime(e[2], e[3])) :
        e \in { <<1, 0, 0>>, <<4, 0, 1>>, <<5, 1, 0>>, <<7, MaxMonth, 0>> } }
    \cup { [pk |-> make_monthly_user_activity_partition_key("alice", 0),
            sk |-> <<-1, 0>>],
           make_activity_key("bob", 1, 0) }

\* get_followers and get_post_replies: DEFAULT_PAGE_SIZE of the two modules.
FOLLOWER_PAGE_SIZE == 12
REPLY_PAGE_SIZE == 12

Position(order, x) == CHOOSE i \in 1..Len(order) : order[i] = x

\* A run of a query in batches of size items, each batch turned around
\* before it is yielded (list.sort() of a descending batch, list.reverse()).
RECURSIVE ReversedBatches(_, _)
ReversedBatches(run, size) ==
    IF Len(run) <= size THEN Reverse(run)
    ELSE Reverse(Take(run, size))
            \o ReversedBatches(SubSeq(run, size + 1, Len(run)), size)

\* The cursor of a follower id, and "~", which sorts after every follower id.
urlencode(id) == <<id>>

Tilde == urlencode([host |-> "~", path |-> <<>>])

CursorOrder == [i \in 1..Len(FollowerOrder) |-> urlencode(FollowerOrder[i])] \o <<Tilde>>

\* UserTable.enumerate_user_followers with a cursor: <<ok, follower ids>>.
enumerate_followers(items, username, items_per_query, after, before) ==
    LET all == enumerate_user_followers(items, username)
        At(cursor) == Position(CursorOrder, cursor)
        Before(id) == At(urlencode(id)) < At(before)
        After(id) == At(urlencode(id)) > At(after)
    IN  IF after # None /\ before # None THEN <<FALSE, <<>>>>
        ELSE IF before # None
        THEN <<TRUE, ReversedBatches(Reverse(SelectSeq(all, Before)),
                                     items_per_query)>>
        ELSE IF after # None
        THEN <<TRUE, SelectSeq(all, After)>>
        ELSE <<TRUE, all>>

get_first_follower_page(items, username, page_size) ==
    LET followers == Take(enumerate_followers(items, username, page_size,
                                              None, None)[2],
                          page_size)
    IN  IF Len(followers) = 0 THEN make_collection_page(<<>>, NoLink, NoLink)
        ELSE make_collection_page(
                 followers, Link("followers", "after", urlencode(Last(followers))), NoLink)

\* An 'after' page whose next is the first page where it is empty.
page_after_back_to_first(items, username, after, page_size) ==
    LET followers == Take(enumerate_followers(items, username, page_size,
                                              after, None)[2],
                          page_size)
    IN  IF Len(followers) = 0
        THEN make_collection_page(<<>>, Link("followers", "", None),
                                  Link("followers", "before", Tilde))
        ELSE make_collection_page(
                 followers, Link("followers", "after", urlencode(Last(followers))),
                 Link("followers", "before", urlencode(Head(followers))))

get_follower_page_after(items, username, after, page_size) ==
    LET followers == Take(enumerate_followers(items, username, page_size,
                                              after, None)[2],
                          page_size)
    IN  IF Len(followers) = 0
        THEN make_collection_page(<<>>, NoLink, Link("followers", "before", Tilde))
        ELSE make_collection_page(
                 followers, Link("followers", "after", urlencode(Last(followers))),
                 Link("followers", "before", urlencode(Head(followers))))

get_follower_page_before(items, username, before, page_size) ==
    LET followers == Take(enumerate_followers(items, username, page_size,
                                              None, before)[2],
                          page_size)
    IN  IF Len(followers) = 0
        THEN make_collection_page(<<>>, Link("followers", "", None), NoLink)
        ELSE make_collection_page(
                 followers, Link("followers", "after", urlencode(Last(followers))),
                 Link("followers", "before", urlencode(Head(followers))))

\* lambda_handler of get_followers, where PAGE_SIZE is page_size.
get_followers_by(page_size, items, times, username, is_page, before, after) ==
    IF after # None /\ before # None THEN Failed("BadRequestError")
    ELSE IF username \notin DOMAIN times THEN Failed("NotFoundError")
    ELSE IF ~is_page THEN [Failed("") EXCEPT !.type = "OrderedCollection"]
    ELSE IF after # None
    THEN get_follower_page_after(items, username, after, page_size)
    ELSE IF before # None
    THEN get_follower_page_before(items, username, before, page_size)
    ELSE get_first_follower_page(items, username, page_size)

\* lambda_handler of get_followers with the default PAGE_SIZE.
get_followers(items, times, username, is_page, before, after) ==
    get_followers_by(FOLLOWER_PAGE_SIZE, items, times, username, is_page, before,
                     after)

FollowerCursors ==
    { urlencode(RemoteId(r)) : r \in {"bot", "r1", "r2"} } \cup {Tilde}

GetFollowers(username, is_page, before, after) ==
    /\ lastPage' = [request |-> Request("followers", username, is_page, before, after),
                    answer |-> get_followers(followerItems, userTimes, username,
                                             is_page, before, after)]
    /\ UNCHANGED <<activityItems, userTimes, now, lastPut, lastUpdate, pushes,
                   lastFinger>>
    /\ UNCHANGED <<followVars, inboundVars, replyVars, expandVars, pipeVars>>
    /\ UNCHANGED libVars

\* No page was requested by the client.
NoCrawl ==
    [at |-> "idle", username |-> "", page_size |-> 0, visited |-> <<>>,
     next |-> NoLink, requests |-> 0]

\* The client requests the first page of the followers of a user from a
\* get_followers whose PAGE_SIZE is page_size.
StartCrawl(username, page_size) ==
    /\ crawl.at = "idle"
    /\ LET page == get_followers_by(page_size, followerItems, userTimes,
                                    username, TRUE, None, None)
       IN  crawl' = [at |-> IF page.next = NoLink THEN "done" ELSE "follow",
                     username |-> username, page_size |-> page_size,
                     visited |-> page.orderedItems, next |-> page.next,
                     requests |-> 1]
    /\ UNCHANGED <<followVars, inboundVars, replyVars, expandVars, pipeVars,
                   outboxVars>>
    /\ UNCHANGED <<lastSign, lastKey, walk, lastRun, kept>>

\* The client requests the URI of the next member of the page it has.
FollowNext ==
    /\ crawl.at = "follow"
    /\ crawl.requests < MaxCrawl
    /\ LET link == crawl.next
           page == get_followers_by(
                       crawl.page_size, followerItems, userTimes, crawl.username,
                       TRUE,
                       IF link.query = "before" THEN link.cursor ELSE None,
                       IF link.query = "after" THEN link.cursor ELSE None)
       IN  crawl' = [crawl EXCEPT
                        !.at = IF page.next = NoLink THEN "done" ELSE "follow",
                        !.visited = @ \o page.orderedItems,
                        !.next = page.next,
                        !.requests = @ + 1]
    /\ UNCHANGED <<followVars, inboundVars, replyVars, expandVars, pipeVars,
                   outboxVars>>
    /\ UNCHANGED <<lastSign, lastKey, walk, lastRun, kept>>

\* ReplyMetadata.OLDEST_SERIALIZED_KEY: "1970-01-01T00:00:00Z:!"
OLDEST_SERIALIZED_KEY == <<"1970", "!">>

\* "{published}:{id}" of the sort key "reply:{published}:{id}"
serialize_user_post_reply_key(key) == <<key.sk[2], key.sk[3]>>

deserialize_user_post_reply_key(username, unique_part, key) ==
    [pk |-> make_user_post_partition_key(username, unique_part),
     sk |-> <<REPLY_SK_PREFIX, key[1], key[2]>>]

\* Serialized keys of replies in the ascending order of their sort keys.
ReplyKeyOrder ==
    <<OLDEST_SERIALIZED_KEY, <<"t1", "n1">>, <<"t1", "n2">>, <<"t2", "n1">>,
      <<"t2", "n2">>>>

\* ObjectTable.enumerate_replies_to_post: <<ok, reply items>>.  The replies
\* of the model are public.
enumerate_replies_to_post(items, username, unique_part, items_per_query, before, after) ==
    LET At(key) == Position(ReplyKeyOrder, serialize_user_post_reply_key(key))
        Less(a, b) == At(a) < At(b)
        replies == { it \in items :
                       /\ it.pk = make_user_post_partition_key(username, unique_part)
                       /\ it.sk[1] = REPLY_SK_PREFIX }
    IN  IF before # NoKey /\ after # NoKey THEN <<FALSE, <<>>>>
        ELSE IF before # NoKey
        THEN <<TRUE, Reverse(Sorted({ it \in replies : Less(it, before) }, Less))>>
        ELSE IF after # NoKey
        THEN <<TRUE, ReversedBatches(
                         Sorted({ it \in replies : Less(after, it) }, Less),
                         items_per_query)>>
        ELSE <<TRUE, Reverse(Sorted(replies, Less))>>

\* PostMetadata.enumerate_replies and get_reply_page.
get_reply_page(items, username, unique_part, before, after) ==
    LET Key(cursor) == IF cursor = None THEN NoKey
                       ELSE deserialize_user_post_reply_key(
                                username, unique_part, cursor)
        replies == enumerate_replies_to_post(
                       items, username, unique_part, REPLY_PAGE_SIZE,
                       Key(before), Key(after))
    IN  IF replies[1]
        THEN [raised |-> "", replies |-> Take(replies[2], REPLY_PAGE_SIZE)]
        ELSE [raised |-> "ValueError", replies |-> <<>>]

\* The ids of replies, as the URIs they are.
ReplyUris(replies) ==
    [i \in 1..Len(replies) |->
        [host |-> REMOTE_HOST, path |-> <<"objects", replies[i].id>>]]

ReplyLink(query, reply) ==
    Link("replies", query, serialize_user_post_reply_key(reply))

get_first_reply_page(items, username, unique_part) ==
    LET page == get_reply_page(items, username, unique_part, None, None)
    IN  IF Len(page.replies) = 0 THEN make_collection_page(<<>>, NoLink, NoLink)
        ELSE make_collection_page(
                 ReplyUris(page.replies),
                 ReplyLink("before", Last(page.replies)), NoLink)

get_reply_page_before(items, username, unique_part, before) ==
    LET page == get_reply_page(items, username, unique_part, before, None)
    IN  IF page.raised # "" THEN Failed(page.raised)
        ELSE IF Len(page.replies) = 0
        THEN make_collection_page(
                 <<>>, NoLink, Link("replies", "after", OLDEST_SERIALIZED_KEY))
        ELSE make_collection_page(
                 ReplyUris(page.replies),
                 ReplyLink("before", Last(page.replies)),
                 ReplyLink("after", Head(page.replies)))

get_reply_page_after(items, username, unique_part, after) ==
    LET page == get_reply_page(items, username, unique_part, None, after)
    IN  IF page.raised # "" THEN Failed(page.raised)
        ELSE IF Len(page.replies) = 0
        THEN make_collection_page(<<>>, Link("replies", "", None), NoLink)
        ELSE make_collection_page(
                 ReplyUris(page.replies),
                 ReplyLink("before", Last(page.replies)),
                 ReplyLink("after", Head(page.replies)))

\* lambda_handler of get_post_replies.  The posts of the model are public.
get_post_replies(posts, items, username, unique_part, is_page, before, after) ==
    IF ~find_user_post(posts, username, unique_part) THEN Failed("NotFoundError")
    ELSE IF ~is_page THEN [Failed("") EXCEPT !.type = "OrderedCollection"]
    ELSE LET page ==
               IF before # None
               THEN get_reply_page_before(items, username, unique_part, before)
               ELSE IF after # None
               THEN get_reply_page_after(items, username, unique_part, after)
               ELSE get_first_reply_page(items, username, unique_part)
         IN  IF page.raised = "ValueError" THEN Failed("BadRequestError")
             ELSE page

ReplyCursors == {OLDEST_SERIALIZED_KEY, <<"t1", "n1">>, <<"t2", "n2">>}

GetPostReplies(username, unique_part, is_page, before, after) ==
    /\ lastPage' = [request |-> Request("replies", username, is_page, before, after),
                    answer |-> get_post_replies(postItems, replyItems, username,
                                                unique_part, is_page, before, after)]
    /\ UNCHANGED <<activityItems, userTimes, now, lastPut, lastUpdate, pushes,
                   lastFinger>>
    /\ UNCHANGED <<followVars, inboundVars, replyVars, expandVars, pipeVars>>
    /\ UNCHANGED libVars

\* No generator of followers or replies was run.
NoRun ==
    [of |-> "", username |-> "", items_per_query |-> 0, before |-> None,
     after |-> None, raised |-> "", yielded |-> <<>>]

\* A caller takes every follower id that UserTable.enumerate_user_followers
\* yields; the cursors are follower ids as the pages encode them.
EnumerateUserFollowers(username, items_per_query, after, before) ==
    LET run == enumerate_followers(followerItems, username, items_per_query,
                                   after, before)
    IN  /\ lastRun' = [of |-> "followers", username |-> username,
                       items_per_query |-> items_per_query, before |-> before,
                       after |-> after,
                       raised |-> IF run[1] THEN "" ELSE "ValueError",
                       yielded |-> run[2]]
        /\ UNCHANGED <<followVars, inboundVars, replyVars, expandVars, pipeVars,
                       outboxVars>>
        /\ UNCHANGED <<lastSign, lastKey, walk, crawl, kept>>

\* A caller takes every reply that PostMetadata.enumerate_replies yields for
\* serialized keys; the history keeps the sort keys of the replies.
EnumerateReplies(username, unique_part, items_per_query, before, after) ==
    LET Key(cursor) == IF cursor = None THEN NoKey
                       ELSE deserialize_user_post_reply_key(
                                username, unique_part, cursor)
        run == enumerate_replies_to_post(replyItems, username, unique_part,
                                         items_per_query, Key(before), Key(after))
    IN  /\ lastRun' = [of |-> "replies", username |-> username,
                       items_per_query |-> items_per_query, before |-> before,
                       after |-> after,
                       raised |-> IF run[1] THEN "" ELSE "ValueError",
                       yielded |-> [i \in 1..Len(run[2]) |-> run[2][i].sk]]
        /\ UNCHANGED <<followVars, inboundVars, replyVars, expandVars, pipeVars,
                       outboxVars>>
        /\ UNCHANGED <<lastSign, lastKey, walk, crawl, kept>>

\* Keys and cursors that are converted: the keys of activities of the users,
\* the key of a follower partition, and the cursors of the outbox requests.
ConvertedKeys ==
    { make_activity_key(u, part, time) :
        u \in Users, part \in PushedParts \cup {1, 2, 20, 21},
        time \in 0..MaxClock }
    \cup { [pk |-> make_follower_partition_key(u), sk |-> <<0, 1>>] : u \in Users }

NoConversion ==
    [of |-> "", username |-> "", key |-> NoKey, cursor |-> None,
     raised |-> "", back_key |-> NoKey, back_cursor |-> None]

\* serialize_activity_key of a key, and deserialize_activity_key of the
\* result for a user.
SerializeKey(key, username) ==
    /\ lastKey' =
          IF ~is_activity_key(key)
          THEN [NoConversion EXCEPT !.of = "key", !.username = username,
                                    !.key = key, !.raised = "ValueError"]
          ELSE LET cursor == serialize_activity_key(key)
                   back == deserialize_activity_key(cursor, username)
               IN  [NoConversion EXCEPT
                       !.of = "key", !.username = username, !.key = key,
                       !.cursor = cursor,
                       !.raised = IF back[1] THEN "" ELSE "ValueError",
                       !.back_key = back[2]]
    /\ UNCHANGED <<lastSign, walk, lastRun, crawl, kept>>
    /\ UNCHANGED <<followVars, inboundVars, replyVars, expandVars, pipeVars,
                   outboxVars>>

\* deserialize_activity_key of a cursor for a user, and
\* serialize_activity_key of the result.
DeserializeCursor(cursor, username) ==
    /\ lastKey' =
          LET key == deserialize_activity_key(cursor, username)
          IN  IF ~key[1] \/ ~is_activity_key(key[2])
              THEN [NoConversion EXCEPT
                       !.of = "cursor", !.username = username,
                       !.cursor = cursor, !.raised = "ValueError"]
              ELSE [NoConversion EXCEPT
                       !.of = "cursor", !.username = username,
                       !.cursor = cursor, !.key = key[2],
                       !.back_cursor = serialize_activity_key(key[2])]
    /\ UNCHANGED <<lastSign, walk, lastRun, crawl, kept>>
    /\ UNCHANGED <<followVars, inboundVars, replyVars, expandVars, pipeVars,
                   outboxVars>>

----------------------------------------------------------------------------
\* web_finger and libactivitypub.utils.  A string that is parsed is the
\* sequence of its parts: "acct:", a name, "@", a domain name.

\* The position of the first x in a sequence, 0 where there is none.
Find(seq, x) ==
    IF \E i \in 1..Len(seq) : seq[i] = x
    THEN CHOOSE i \in 1..Len(seq) :
            seq[i] = x /\ \A j \in 1..(i - 1) : seq[j] # x
    ELSE 0

\* <<ok, name, domain>>: account.split('@', maxsplit=1); ok is FALSE where
\* the code raises ValueError.
parse_webfinger_id(account) ==
    LET at == Find(account, "@")
    IN  IF at = 0 THEN <<FALSE, <<>>, <<>>>>
        ELSE <<TRUE, SubSeq(account, 1, at - 1),
               SubSeq(account, at + 1, Len(account))>>

parse_acct_uri(uri) ==
    IF Len(uri) = 0 \/ Head(uri) # "acct:" THEN <<FALSE, <<>>, <<>>>>
    ELSE parse_webfinger_id(Tail(uri))

NoAnswer(error) ==
    [raised |-> error, subject |-> <<>>, href |-> [host |-> "", path |-> <<>>]]

\* lambda_handler of web_finger, with the environment variable DOMAIN_NAME
\* ("" where it is not set) and the members of the event.
web_finger(domain_name, resource, apiDomainName) ==
    LET host_domain_name == IF domain_name # "" THEN domain_name
                            ELSE apiDomainName
        parsed == parse_acct_uri(resource)
        name == parsed[2]
    IN  IF ~parsed[1] THEN NoAnswer("BadRequestError")
        ELSE IF parsed[3] # <<host_domain_name>>
        THEN NoAnswer("UnexpectedDomainError")
        ELSE IF name # <<"kemoto">> THEN NoAnswer("NotFoundError")
        ELSE [raised |-> "",
              subject |-> name \o <<"@">> \o parsed[3],
              href |-> [host |-> host_domain_name, path |-> <<"users">> \o name]]

\* Requests: accounts of users, of the name the handler knows and of nobody,
\* on this domain and on another; resources with no "@", with another scheme
\* and with no scheme.
FingerNames == Users \cup {"kemoto", "nobody"}
FingerDomains == {DOMAIN_NAME, REMOTE_HOST}
Resources ==
    { <<"acct:", n, "@", d>> : n \in FingerNames, d \in FingerDomains }
    \cup { <<"acct:", n>> : n \in FingerNames }
    \cup { <<"mailto:", n, "@", d>> : n \in FingerNames, d \in FingerDomains }
    \cup { <<n, "@", d>> : n \in FingerNames, d \in FingerDomains }

NoFinger ==
    [domain_name |-> "", resource |-> <<>>, apiDomainName |-> "",
     answer |-> NoAnswer("")]

WebFinger(domain_name, resource, apiDomainName) ==
    /\ lastFinger' = [domain_name |-> domain_name, resource |-> resource,
                      apiDomainName |-> apiDomainName,
                      answer |-> web_finger(domain_name, resource, apiDomainName)]
    /\ UNCHANGED <<activityItems, userTimes, now, lastPut, lastUpdate, lastPage,
                   pushes>>
    /\ UNCHANGED <<followVars, inboundVars, replyVars, expandVars, pipeVars>>
    /\ UNCHANGED libVars

----------------------------------------------------------------------------
InitUserTable ==
    /\ followerItems = {}
    /\ followerCount = [u \in Users |-> 0]

InitServices ==
    /\ followingCount = [u \in Users |-> 0]
    /\ userStream = <<>>
    /\ staging = <<>>
    /\ pc = [p \in Procs |-> "idle"]
    /\ job = [p \in Procs |-> NoJob]
    /\ res = [p \in Procs |-> ""]
    /\ stagedKey = [p \in Procs |-> <<>>]
    /\ raced = [p \in Procs |-> FALSE]
    /\ track = NoTrack
    /\ dispatched = 0
    /\ inboxBlobs = {}
    /\ quarantineBlobs = {}
    /\ rpc = "idle"
    /\ request = NoRequest
    /\ response = NoResponse
    /\ received = 0
    /\ objectStream = <<>>
    /\ repliesAdded = {}
    /\ lastCreate = ""
    /\ recipients = NewCollector.recipients
    /\ excluded = NewCollector.excluded
    /\ collected = NewCollector.collected
    /\ lastExpand = NoExpand
    /\ expansions = 0
    /\ outboxBlobs = {}
    /\ lastDeliver = NoDeliver
    /\ lastFailure = NoFailure
    /\ deliveries = 0
    /\ delivery = [p \in Procs |-> NoDelivery]
    /\ inboxPosts = {}

InitHistories ==
    /\ lastPut = NoPut
    /\ lastUpdate = NoUpdate
    /\ lastPage = NoPage
    /\ pushes = 0
    /\ lastFinger = NoFinger
    /\ lastSign = NoSign
    /\ lastKey = NoConversion
    /\ walk = NoWalk
    /\ lastRun = NoRun
    /\ crawl = NoCrawl
    /\ kept = NoKept

InitObjects ==
    /\ postItems = <<>>
    /\ replyItems = {}

InitOthers ==
    /\ InitServices
    /\ InitObjects
    /\ activityItems = {}
    /\ userTimes = [u \in Users |->
                      [createdAt |-> 0, updatedAt |-> 0, lastActivityAt |-> 0]]
    /\ now = 0
    /\ InitHistories

Init == InitUserTable /\ InitOthers

\* The object table holds activities of alice, and the user records tell the
\* time of the latest of them as the time of the last activity.
InitStored(shapes) ==
    \E shape \in shapes :
       LET last == IF shape[1] = 0 THEN 0 ELSE (shape[1] - 1) \div shape[2]
       IN  /\ activityItems = StoredActivities(shape[1], shape[2], shape[3])
           /\ userTimes = [u \in Users |->
                             [createdAt |-> 0, updatedAt |-> last,
                              lastActivityAt |-> last]]
           /\ now = last

InitOutbox ==
    /\ InitUserTable
    /\ InitServices
    /\ InitObjects
    /\ InitStored(FewStored)
    /\ InitHistories

\* An enumeration starts from a table that holds some of the activities of
\* the pool, alice having been created in the first or the second month and
\* last active in the second or the last one.
InitWalk ==
    /\ InitUserTable
    /\ InitServices
    /\ InitObjects
    /\ InitHistories
    /\ now = MaxClock
    /\ \E pool \in SUBSET WalkPool, created \in {0, 1}, last \in {1, MaxMonth} :
          /\ activityItems = { WalkItem(e) : e \in pool }
          /\ userTimes = [u \in Users |->
                            [createdAt |-> WalkTime(created, 0),
                             updatedAt |-> WalkTime(last, 0),
                             lastActivityAt |-> WalkTime(last, 0)]]

\* Replies to the post P1 of alice the object table may hold.
StoredReplies ==
    { [pk |-> make_user_post_partition_key("alice", "P1"),
       sk |-> <<REPLY_SK_PREFIX, key[1], key[2]>>, id |-> key[2],
       category |-> "reply", published |-> key[1]] :
        key \in {<<"t1", "n1">>, <<"t2", "n2">>} }

\* Items of the partition of the post P1 of alice: replies, and the item of
\* the post itself, whose sort key is "metadata".
EnumeratedItems ==
    { [pk |-> make_user_post_partition_key("alice", "P1"),
       sk |-> <<REPLY_SK_PREFIX, key[1], key[2]>>, id |-> key[2],
       category |-> "reply", published |-> key[1]] :
        key \in {<<"t1", "n1">>, <<"t1", "n2">>, <<"t2", "n1">>, <<"t2", "n2">>} }
    \cup { [pk |-> make_user_post_partition_key("alice", "P1"),
            sk |-> <<"metadata", "", "">>, id |-> "P1", category |-> "post",
            published |-> "t1"] }

\* The generators run on a table that holds some of the followers, or some
\* of the items of the post.
InitEnumerate ==
    /\ InitServices
    /\ InitHistories
    /\ activityItems = {}
    /\ userTimes = [u \in Users |->
                      [createdAt |-> 0, updatedAt |-> 0, lastActivityAt |-> 0]]
    /\ now = 0
    /\ \E followers \in SUBSET FollowerCandidates,
          items \in SUBSET EnumeratedItems :
          /\ followers = {} \/ items = {}
          /\ followerItems = followers
          /\ replyItems = items
    /\ followerCount =
          [u \in Users |-> 2 * Cardinality(Followers(followerItems, u))]
    /\ postItems = [pk \in {make_user_post_partition_key("alice", "P1")} |-> 2]

\* Pages are requested from tables that hold activities, and either no
\* follower, post or reply, or followers of the users and replies to a post.
InitPages ==
    /\ InitServices
    /\ InitStored(ManyStored)
    /\ InitHistories
    /\ \E populated \in BOOLEAN :
          /\ followerItems = IF populated THEN FollowerCandidates ELSE {}
          /\ followerCount =
                [u \in Users |-> 2 * Cardinality(Followers(followerItems, u))]
          /\ replyItems = IF populated THEN StoredReplies ELSE {}
          /\ postItems =
                IF populated
                THEN [pk \in {make_user_post_partition_key("alice", "P1")} |-> 2]
                ELSE <<>>

\* Requests to the paginated endpoints: <<username, page, before, after>>.
OutboxRequests ==
    { <<u, TRUE, None, None>> : u \in {"alice", "nobody"} }
    \cup { <<"alice", TRUE, cursor, None>> : cursor \in OutboxCursors }
    \cup { <<"alice", TRUE, None, cursor>> :
              cursor \in {<<0, 0, 1>>, <<1, 0, 21>>, <<0, -1, 0>>} }
    \cup { <<"alice", FALSE, None, None>>, <<"alice", TRUE, <<0, 1, 20>>, <<0, 0, 1>>>> }

FollowerRequests ==
    { <<u, TRUE, None, None>> : u \in {"alice", "nobody"} }
    \cup { <<"alice", TRUE, cursor, None>> : cursor \in FollowerCursors }
    \cup { <<"alice", TRUE, None, cursor>> : cursor \in FollowerCursors }
    \cup { <<"alice", FALSE, None, None>>, <<"alice", TRUE, Tilde, urlencode(RemoteId("bot"))>> }

ReplyRequests ==
    { <<u, TRUE, None, None>> : u \in {"alice", "bob"} }
    \cup { <<"alice", TRUE, cursor, None>> : cursor \in ReplyCursors }
    \cup { <<"alice", TRUE, None, cursor>> : cursor \in ReplyCursors }
    \cup { <<"alice", FALSE, None, None>>,
            <<"alice", TRUE, <<"t2", "n2">>, OLDEST_SERIALIZED_KEY>> }

NextPages ==
    \/ \E r \in OutboxRequests : GetOutboxActivities(r[1], r[2], r[3], r[4])
    \/ \E r \in FollowerRequests : GetFollowers(r[1], r[2], r[3], r[4])
    \/ \E r \in ReplyRequests : GetPostReplies(r[1], "P1", r[2], r[3], r[4])
    \/ \E a \in { act \in PushedActivities : parse_user_activity_id(act.id)[1] } :
          PushStagedActivity(OBJECTS_BUCKET_NAME, a, "ok", "ok")
    \/ UpdateLastActivity(make_user_id(DOMAIN_NAME, "alice"), "ok")
    \/ Tick

NextParallel ==
    \/ \E p \in Procs, a \in DeliveredActivities, r \in ParallelInboxes,
          s \in StoreOutcomes : deliver_receive(p, a, r, s)
    \/ \E p \in Procs : deliver_save(p)
    \/ \E p \in Procs, st \in InboxResponses : deliver_post(p, st)

NextSignature ==
    \/ \E o \in KeyOwners, pairs \in PairLists : SignHeaders(o, pairs)
    \/ \E o \in KeyOwners, pairs \in PairLists : VerifyHeaders(o, pairs)

NextKeys ==
    \/ \E k \in ConvertedKeys, u \in Users : SerializeKey(k, u)
    \/ \E c \in OutboxCursors, u \in Users : DeserializeCursor(c, u)

NextFinger ==
    \E d \in {"", DOMAIN_NAME}, r \in Resources, api \in FingerDomains :
       WebFinger(d, r, api)

NextOutbox ==
    \/ \E b \in Buckets, a \in PushedActivities, l \in LoadOutcomes,
          s \in StoreOutcomes : PushStagedActivity(b, a, l, s)
    \/ \E a \in UpdatedActors, s \in StoreOutcomes : UpdateLastActivity(a, s)
    \/ Tick

\* The user table after Follows were processed and the stream was drained: the
\* count of a user is raised once by add_user_follower and once more by
\* update_user_statistics for each follower item.
InitExpand ==
    /\ followerItems \in SUBSET FollowerCandidates
    /\ followerCount =
          [u \in Users |-> 2 * Cardinality(Followers(followerItems, u))]
    /\ InitOthers

NextFollow ==
    \/ \E p \in Procs, u \in Users, a \in Follows \cup Undos :
          dispatch_rejected(p, u, a)
    \/ \E p \in Procs, u \in Users, a \in Follows : visit_follow(p, u, a)
    \/ \E p \in Procs, u \in Users, a \in Undos : visit_undo(p, u, a)
    \/ \E p \in Procs : update_follower_count(p)
    \/ \E n \in 1..MaxBatch : UpdateUserStatistics(n)

SpecFollow == Init /\ [][NextFollow]_vars

NextDomain ==
    \/ \E p \in Procs, u \in Users, a \in FollowsOfAnyone :
          dispatch_rejected(p, u, a)
    \/ \E p \in Procs, u \in Users, a \in FollowsOfAnyone : visit_follow(p, u, a)
    \/ \E p \in Procs : update_follower_count(p)
    \/ \E n \in 1..MaxBatch : UpdateUserStatistics(n)

SpecDomain == Init /\ [][NextDomain]_vars

NextUndo ==
    \/ \E p \in Procs, u \in Users, a \in FollowsOfAlice \cup UndosByAnyone :
          dispatch_rejected(p, u, a)
    \/ \E p \in Procs, u \in Users, a \in FollowsOfAlice : visit_follow(p, u, a)
    \/ \E p \in Procs, u \in Users, a \in UndosByAnyone : visit_undo(p, u, a)
    \/ \E p \in Procs : update_follower_count(p)
    \/ \E n \in 1..MaxBatch : UpdateUserStatistics(n)

SpecUndo == Init /\ [][NextUndo]_vars

NextCreate ==
    \/ \E u \in Users, part \in PostParts : put_post(u, part)
    \/ \E obj \in ObjectsAnywhere : visit_create(obj)
    \/ \E n \in 1..MaxBatch : UpdateObjectStatistics(n)

SpecCreate == Init /\ [][NextCreate]_vars

NextWalk ==
    \/ \E cursor \in WalkCursors \cup {NoKey} : StartWalk("alice", cursor, NoKey)
    \/ \E cursor \in WalkCursors : StartWalk("alice", NoKey, cursor)
    \/ QueryWalk("alice")

SpecWalk == InitWalk /\ [][NextWalk]_vars

\* The caller takes items until the generator returns: the loop of a
\* generator that was started runs its next query.
SpecWalkToEnd == InitWalk /\ [][NextWalk]_vars /\ WF_vars(QueryWalk("alice"))

\* The client runs on a table that holds some of the followers.
InitCrawl ==
    /\ InitServices
    /\ InitObjects
    /\ InitHistories
    /\ activityItems = {}
    /\ userTimes = [u \in Users |->
                      [createdAt |-> 0, updatedAt |-> 0, lastActivityAt |-> 0]]
    /\ now = 0
    /\ followerItems \in SUBSET FollowerCandidates
    /\ followerCount =
          [u \in Users |-> 2 * Cardinality(Followers(followerItems, u))]

NextCrawl ==
    \/ \E u \in Users, n \in (1..CrawlPageSize) \cup {FOLLOWER_PAGE_SIZE} :
          StartCrawl(u, n)
    \/ FollowNext

\* The client requests the next link of every page it receives.
SpecCrawl == InitCrawl /\ [][NextCrawl]_vars /\ WF_vars(FollowNext)

\* The post P1 of alice exists, and the streams are empty.
InitStatistics ==
    /\ InitUserTable
    /\ InitServices
    /\ InitHistories
    /\ activityItems = {}
    /\ userTimes = [u \in Users |->
                      [createdAt |-> 0, updatedAt |-> 0, lastActivityAt |-> 0]]
    /\ now = 0
    /\ replyItems = {}
    /\ postItems = [pk \in {make_user_post_partition_key("alice", "P1")} |-> 0]

NextStatistics ==
    \/ \E record \in UserChanges : FeedUserStream(record)
    \/ \E record \in ObjectChanges : FeedObjectStream(record)
    \/ \E n \in 1..MaxBatch : InvokeUserStatistics(n)
    \/ \E n \in 1..MaxBatch : InvokeObjectStatistics(n)

SpecStatistics == InitStatistics /\ [][NextStatistics]_vars

NextEnumerate ==
    \/ \E n \in {ItemsPerQuery, FOLLOWER_PAGE_SIZE},
          after \in FollowerCursors \cup {None},
          before \in FollowerCursors \cup {None} :
          EnumerateUserFollowers("alice", n, after, before)
    \/ \E n \in {ItemsPerQuery, REPLY_PAGE_SIZE},
          before \in ReplyCursors \cup {None},
          after \in ReplyCursors \cup {None} :
          EnumerateReplies("alice", "P1", n, before, after)

SpecEnumerate == InitEnumerate /\ [][NextEnumerate]_vars

SpecInbound == Init /\ [][NextInbound]_vars

SpecReply == Init /\ [][NextReply]_vars

SpecExpand == InitExpand /\ [][NextExpand]_vars

SpecPipeline == Init /\ [][NextPipeline]_vars

SpecOutbox == InitOutbox /\ [][NextOutbox]_vars

SpecPages == InitPages /\ [][NextPages]_vars
SpecFinger == Init /\ [][NextFinger]_vars
SpecParallel == Init /\ [][NextParallel]_vars
SpecSignature == Init /\ [][NextSignature]_vars
SpecKeys == Init /\ [][NextKeys]_vars

----------------------------------------------------------------------------
\* Properties of SpecFollow.

HasFollower(username, follower_id) ==
    ItemsAt(followerItems, make_follower_key(username, follower_id)) # {}

\* C1: once no invocation is running and the statistics maintainer has
\* consumed every record of the change stream, followerCount of every user
\* equals the number of follower items under the user's follower partition.
C1_CountEqualsEdges ==
    Quiet => \A u \in Users :
               followerCount[u] = Cardinality(Followers(followerItems, u))

\* The invocation of container p has returned from a Follow addressed to the
\* owner of the inbox.
FollowDispatched(p) ==
    /\ pc[p] = "idle"
    /\ job[p].activity.type = "Follow"
    /\ followed_id(job[p].activity) = make_user_id(DOMAIN_NAME, job[p].username)

C5_RepeatedFollowIsNoOp ==
    [][ \A p \in Procs, u \in Users, f \in Follows :
          ( /\ visit_follow(p, u, f)
            /\ \E it \in ItemsAt(followerItems, make_follower_key(u, f.actor)) :
                 it.followActivityId = f.id )
          => /\ res'[p] = "existing"
             /\ pc'[p] = "idle"
             /\ followerItems' = followerItems
             /\ Cardinality(ItemsAt(followerItems',
                                    make_follower_key(u, f.actor))) = 1
             /\ userStream' = userStream
             /\ followerCount' = followerCount ]_vars

\* Two containers hold the same Follow: the first has put the item and not yet
\* updated the count, the second found the item and returned meanwhile.
C5_Witness ==
    \E p, q \in Procs :
      /\ p # q
      /\ job[p] = job[q]
      /\ job[p].activity.type = "Follow"
      /\ pc[p] = "update_item" /\ res[p] = "added"
      /\ pc[q] = "idle" /\ res[q] = "existing" /\ ~raced[q]

C14_CountsNonNegative ==
    /\ \A u \in Users : followerCount[u] >= 0 /\ followingCount[u] >= 0
    /\ \A pk \in DOMAIN postItems : postItems[pk] >= 0

\* C29: the dispatch of an Undo removes a follower item (u, f) only if the
\* actor of the Undo is f, the actor of the Follow it undoes.
C29_UndoOnlyByFollower ==
    \A p \in Procs :
      (job[p].activity.type = "Undo" /\ res[p] = "removed")
        => job[p].activity.actor = job[p].activity.object.actor

\* C27: the dispatch of a Follow delivered to the inbox of u inserts a follower
\* item and stages an Accept only if the object of the Follow is the actor id
\* of u on the configured domain; for any other object it fails with
\* ValueError, inserts no item and stages nothing.
C27_FollowOnlyOfInboxOwner ==
    \A p \in Procs :
      ( /\ job[p].activity.type = "Follow"
        /\ followed_id(job[p].activity) # make_user_id(DOMAIN_NAME, job[p].username) )
      => /\ res[p] = "ValueError"
         /\ stagedKey[p] = <<>>

\* C24: add_user_follower and remove_user_follower never write followerCount:
\* the step that completes either of them leaves followerCount of every user
\* as it was, the change-stream statistics maintainer being its only writer.
C24_EdgeSitesLeaveCount ==
    [][ \A p \in Procs :
          update_follower_count(p) => followerCount' = followerCount ]_vars

----------------------------------------------------------------------------
\* Properties of SpecInbound.

\* C2: no blob is written to an inbox for a request whose body's SHA-256
\* differs from the value of its Digest header, whatever headers the
\* signature lists: every inbox blob carries the digest of its own body, and a
\* request that was saved had a matching digest.
C2_MismatchNeverStored ==
    /\ \A blob \in inboxBlobs :
         /\ blob.ChecksumSHA256 = b64encode(sha256(blob.Body))
         /\ blob.Key[4] = to_urlsafe_base64(b64encode(sha256(blob.Body)))
    /\ response.saved =>
         is_valid_request_body(request.body.text, request.digest)

\* A request whose body does not match its Digest header passed the
\* verification of the signature and reached the store, which refused it.
C2_Witness ==
    /\ rpc = "idle"
    /\ request.digest.prefix = "SHA-256="
    /\ ~is_valid_request_body(request.body.text, request.digest)
    /\ response.step = "save_activity_in_inbox"
    /\ response.raised = "ClientError"
    /\ inboxBlobs = {}

\* The blocks of the handler that authenticate the sender.
AuthenticationSteps ==
    {"parse_signature", "resolve_signer", "public_key", "key_id",
     "verify_signature", "signer_actor"}

\* C3: a request that fails while the signature is parsed, the signer is
\* resolved, the key id is checked, the signature is verified or the signer
\* is compared with the actor ends with UnauthorizedError, and its event has
\* been quarantined before; it ends with no other kind of error.
C3_AuthFailuresAreUnauthorized ==
    (rpc = "idle" /\ response.step \in AuthenticationSteps /\ response.raised # "")
      => (response.raised = "UnauthorizedError" /\ response.quarantined)

\* C26: when the handler is rejecting a request as Unauthorized and the write
\* to the quarantine bucket fails, the request still ends with
\* UnauthorizedError and not with the error of the write.
C26_QuarantineFailureKeepsUnauthorized ==
    (rpc = "idle" /\ response.rejecting = "UnauthorizedError")
      => response.raised = "UnauthorizedError"

\* C25: an inbox blob is written for a request only after its signature was
\* verified, then the signer's id was found equal to the activity's actor id,
\* then the recipient was found in the user table, in this order; a request
\* that fails any of these steps leaves no inbox blob.
C25_BlobOnlyAfterChecks ==
    [][ (inboxBlobs' # inboxBlobs \/ response'.saved) =>
          /\ response'.saved /\ response'.raised = ""
          /\ request'.passed = <<"verify_signature", "signer_actor", "find_user">>
          /\ request'.key_id.actor = request'.body.actor
          /\ request'.username \in Users
          /\ inboxBlobs' = inboxBlobs \cup
                {InboxBlob(request'.username, request'.body.text,
                           request'.digest)} ]_vars

\* A request too large to prefilter went through every check and was saved.
C25_Witness ==
    /\ rpc = "idle"
    /\ response.saved
    /\ ~request.prefiltered
    /\ inboxBlobs =
         {InboxBlob(request.username, request.body.text, request.digest)}

----------------------------------------------------------------------------
\* Properties of SpecReply.

RepliesUnder(post_pk) ==
    { it \in replyItems : it.pk = post_pk /\ it.sk[1] = REPLY_SK_PREFIX }

C8_OneReplyEntry ==
    /\ \A obj \in repliesAdded :
         LET username == obj.inReplyTo.path[2]
             unique_part == obj.inReplyTo.path[4]
         IN Cardinality(
              { it \in replyItems :
                  /\ it.pk = <<"object:", username, ":post:", unique_part>>
                  /\ it.sk = <<"reply:", obj.published, obj.id>> }) = 1
    /\ Cardinality(replyItems) = Cardinality(repliesAdded)

\* A Create was dispatched again and ended as a duplicate.
C8_Witness ==
    /\ lastCreate = "DuplicateItemError"
    /\ Cardinality(replyItems) >= 2

\* The reference names a posts-category object of a user of this server.
PointsToLocalPost(ref) ==
    LET parsed == parse_user_object_id(ref)
    IN  /\ ref # NoReference
        /\ parsed[1]
        /\ parsed[2] = DOMAIN_NAME
        /\ parsed[3] \in Users
        /\ parsed[4] = "posts"

\* C30: the dispatch of a Create whose object has no inReplyTo, or whose
\* inReplyTo does not point to a post of a user on the configured domain, is
\* ignored: it completes without an error and adds no reply item.
C30_OtherCreatesAreIgnored ==
    [][ \A obj \in ObjectsAnywhere :
          (visit_create(obj) /\ ~PointsToLocalPost(obj.inReplyTo))
            => (lastCreate' = "ignored" /\ replyItems' = replyItems) ]_vars

----------------------------------------------------------------------------
\* Properties of SpecStatistics.

\* INSERT records less REMOVE records of a batch on the partition key pk.
NetInserts(batch, pk) ==
    Cardinality({ i \in 1..Len(batch) :
                    batch[i].eventName = "INSERT" /\ batch[i].Keys.pk = pk })
    - Cardinality({ i \in 1..Len(batch) :
                      batch[i].eventName = "REMOVE" /\ batch[i].Keys.pk = pk })

C39_InvocationsStartEmpty ==
    [][ /\ \A n \in 1..MaxBatch :
             InvokeUserStatistics(n) =>
                \A i \in 1..Len(kept'.user) :
                   LET batch == SubSeq(userStream, 1, n)
                       name == kept'.user[i].username
                   IN  /\ \E j \in 1..n :
                             /\ batch[j].eventName \in {"INSERT", "REMOVE"}
                             /\ batch[j].Keys.pk \in
                                   { make_follower_partition_key(name),
                                     <<FOLLOWEE_PK_PREFIX, name>> }
                       /\ kept'.user[i].delta_follower_count =
                             NetInserts(batch, make_follower_partition_key(name))
                       /\ kept'.user[i].delta_followee_count =
                             NetInserts(batch, <<FOLLOWEE_PK_PREFIX, name>>)
        /\ \A n \in 1..MaxBatch :
             InvokeObjectStatistics(n) =>
                \A i \in 1..Len(kept'.object) :
                   LET batch == SubSeq(objectStream, 1, n)
                       replies == SelectSeq(batch, LAMBDA r :
                                               r.Keys.sk[1] = REPLY_SK_PREFIX)
                   IN  /\ replies # <<>>
                       /\ kept'.object[i].delta_reply_count =
                             NetInserts(replies, kept'.object[i].post_pk) ]_vars

C39_Witness ==
    /\ \E i \in 1..Len(kept.prev_user) : kept.prev_user[i].delta_follower_count = 1
    /\ \E i \in 1..Len(kept.user) : kept.user[i].delta_followee_count = 1
    /\ \E i \in 1..Len(kept.object) : kept.object[i].delta_reply_count = 1

----------------------------------------------------------------------------
\* Properties of SpecCrawl.

\* C36: a client that starts at the first page of the followers of a user
\* and requests the next link of each page has, at every moment, visited the
\* first followers of the user in ascending order, each one once; it reaches
\* a page without next, and by then it has visited every follower.
C36_NextLinksVisitAllOnce ==
    /\ [](crawl.at # "idle" =>
            LET all == enumerate_user_followers(followerItems, crawl.username)
            IN  /\ Len(crawl.visited) <= Len(all)
                /\ crawl.visited = Take(all, Len(crawl.visited))
                /\ crawl.at = "done" => crawl.visited = all)
    /\ (crawl.at = "follow" ~> crawl.at = "done")

C36_Witness ==
    /\ crawl.at = "done"
    /\ crawl.requests >= 3
    /\ Len(crawl.visited) = 4

----------------------------------------------------------------------------
\* Properties of SpecEnumerate.

\* C34: with a cursor before and no cursor after, the generator of followers
\* yields the followers of the user that precede the cursor as one ascending
\* run, which ends with the follower immediately before the cursor, whatever
\* the number of queries the run takes.
C34_BeforeRunIsAscending ==
    (/\ lastRun.of = "followers"
     /\ lastRun.before # None
     /\ lastRun.after = None) =>
        lastRun.yielded =
            SelectSeq(enumerate_user_followers(followerItems, lastRun.username),
                      LAMBDA id : Position(CursorOrder, urlencode(id))
                                     < Position(CursorOrder, lastRun.before))

\* C35: the generator of replies yields sort keys that begin with "reply:",
\* each one earlier than the one yielded before it, for every cursor before
\* or after and every number of queries.
C35_RepliesAreReverseChronological ==
    (lastRun.of = "replies" /\ lastRun.raised = "") =>
        /\ \A i \in 1..Len(lastRun.yielded) :
              lastRun.yielded[i][1] = REPLY_SK_PREFIX
        /\ \A i \in 1..(Len(lastRun.yielded) - 1) :
              Position(ReplyKeyOrder, <<lastRun.yielded[i + 1][2],
                                        lastRun.yielded[i + 1][3]>>)
                 < Position(ReplyKeyOrder, <<lastRun.yielded[i][2],
                                             lastRun.yielded[i][3]>>)

----------------------------------------------------------------------------
\* Properties of SpecWalk.

\* The order of serialized keys: month, time of the month, unique part.
CursorBefore(a, b) ==
    \/ a[1] < b[1]
    \/ a[1] = b[1] /\ a[2] < b[2]
    \/ a[1] = b[1] /\ a[2] = b[2] /\ a[3] < b[3]

\* The public activities of the user in the range an enumeration walks: from
\* the cursor, or from the month of the last activity, down to the month of
\* the creation of the user, or from the cursor up to the month of the last
\* activity.
WalkedRange(username) ==
    LET Month(it) == parse_activity_partition_key(it.pk)[2]
        earliest == format_yyyymm(userTimes[username].createdAt)
        latest == format_yyyymm(userTimes[username].lastActivityAt)
        public == { it \in activityItems :
                      /\ parse_activity_partition_key(it.pk)[1] = username
                      /\ it.isPublic }
    IN  IF walk.before # NoKey
        THEN { it \in public : Month(it) >= earliest /\ KeyBefore(it, walk.before) }
        ELSE IF walk.after # NoKey
        THEN { it \in public : Month(it) <= latest /\ KeyBefore(walk.after, it) }
        ELSE { it \in public : Month(it) >= earliest /\ Month(it) <= latest }

\* C31: what enumerate_user_activities has yielded is in strictly
\* chronological order when after is given and in strictly reverse
\* chronological order otherwise, within a month and from one month to the
\* next, and once it has ended it has yielded every public activity of the
\* walked range, each exactly once.
C31_WalkIsOrderedAndComplete ==
    /\ \A i, j \in 1..Len(walk.yielded) :
         i < j => IF walk.after # NoKey
                  THEN CursorBefore(walk.yielded[i], walk.yielded[j])
                  ELSE CursorBefore(walk.yielded[j], walk.yielded[i])
    /\ walk.at = "done" =>
         /\ Range(walk.yielded) =
               { serialize_activity_key(it) : it \in WalkedRange("alice") }
         /\ Len(walk.yielded) = Cardinality(WalkedRange("alice"))

\* An enumeration after a cursor has ended after it yielded activities of
\* more than one month, from a table that holds an activity after the cursor
\* that is not public.
C31_Witness ==
    /\ walk.at = "done"
    /\ walk.after # NoKey
    /\ Len(walk.yielded) >= 3
    /\ walk.yielded[1][1] # Last(walk.yielded)[1]
    /\ \E it \in activityItems : ~it.isPublic /\ KeyBefore(walk.after, it)

\* The months an enumeration scans: from the month of the cursor, or of the
\* last activity, down to the month of the creation of the user, or from the
\* month of the cursor up to the month of the last activity.
FirstMonth(username) ==
    IF walk.before # NoKey THEN parse_activity_partition_key(walk.before.pk)[2]
    ELSE IF walk.after # NoKey THEN parse_activity_partition_key(walk.after.pk)[2]
    ELSE format_yyyymm(userTimes[username].lastActivityAt)

MonthsToScan(username) ==
    LET first == FirstMonth(username)
        count == IF walk.chronological
                 THEN format_yyyymm(userTimes[username].lastActivityAt) - first + 1
                 ELSE first - format_yyyymm(userTimes[username].createdAt) + 1
    IN  [i \in 1..(IF count > 0 THEN count ELSE 0) |->
           IF walk.chronological THEN first + i - 1 ELSE first - i + 1]

\* C32: a query that returns no items never ends the enumeration: a month is
\* left only when the store has nothing more of it to evaluate, an
\* enumeration that has ended has scanned every month down to the earliest
\* one (or up to the latest one), and every enumeration that queries ends.
C32_EmptyQueriesDoNotEnd ==
    /\ [](walk.at = "done" => walk.left = MonthsToScan("alice"))
    /\ [][ walk'.left # walk.left =>
             Cardinality(Ahead(activityItems,
                               make_monthly_user_activity_partition_key(
                                   "alice", walk.month),
                               walk.chronological, walk.start)) < ItemsPerQuery
         ]_vars
    /\ (walk.at = "query" ~> walk.at = "done")

\* An enumeration has ended after it scanned a month without a public
\* activity and then yielded an activity of a month behind it.
C32_Witness ==
    /\ walk.at = "done"
    /\ \E i, j \in 1..Len(walk.left) :
         /\ i < j
         /\ \A it \in activityItems :
               parse_activity_partition_key(it.pk)[2] = walk.left[i] => ~it.isPublic
         /\ \E k \in 1..Len(walk.yielded) : walk.yielded[k][1] = walk.left[j]

----------------------------------------------------------------------------
\* Properties of SpecExpand.

Expanded == lastExpand.actor # "" /\ lastExpand.raised = ""

SenderId == make_user_id(DOMAIN_NAME, lastExpand.actor)

\* C9: the recipient list expansion returns for an activity contains neither
\* the id nor the inbox of the sending actor, nor the Public address.
C9_NeverSenderNorPublic ==
    Expanded =>
        lastExpand.returned \cap
            {SenderId, make_user_inbox_uri(SenderId),
             ACTIVITY_STREAMS_PUBLIC_ADDRESS} = {}

\* The inbox delivery uses for a follower: none for the sender and for an
\* actor that is gone.
FollowerInboxes(follower_id) ==
    IF follower_id = SenderId THEN {}
    ELSE IF follower_id.host = DOMAIN_NAME THEN {make_user_inbox_uri(follower_id)}
    ELSE IF RemoteDocument(follower_id).status = 410 THEN {}
    ELSE {shared_inbox_or_inbox(RemoteDocument(follower_id))}

ToFollowersAndPublic ==
    lastExpand.addresses =
        {ACTIVITY_STREAMS_PUBLIC_ADDRESS, make_user_followers_uri(SenderId)}

\* C10: for an activity of user u addressed to the Public address and to the
\* followers collection of u, expansion returns the inbox of each current
\* follower of u and nothing else.
C10_FollowerInboxesExactly ==
    (Expanded /\ ToFollowersAndPublic) =>
        lastExpand.returned =
            UNION { FollowerInboxes(f) :
                      f \in Followers(followerItems, lastExpand.actor) }

\* C28: whatever the process served before, the recipients an invocation of
\* expansion returns for an activity, and the error it ends in, are those the
\* activity, the user table and the remote servers determine alone, the ones
\* a process that served nothing before returns.
C28_ExpansionKeepsNothing ==
    lastExpand.actor # "" =>
        /\ lastExpand.returned = lastExpand.alone
        /\ lastExpand.raised = lastExpand.alone_raised

\* C40: the expansion of the Accept of a Follow of a remote actor, who is a
\* Person whose server answers, ends without an error and returns one inbox
\* and no other recipient: the inbox the actor is reached at (the shared
\* inbox of the server where the actor tells one).
C40_AcceptGoesToFollowerOnly ==
    (/\ lastExpand.accepted # NoExpand.accepted
     /\ RemoteDocument(lastExpand.accepted).status = 200
     /\ RemoteDocument(lastExpand.accepted).type = "Person") =>
        /\ lastExpand.raised = ""
        /\ lastExpand.returned =
              {shared_inbox_or_inbox(RemoteDocument(lastExpand.accepted))}

----------------------------------------------------------------------------
\* Properties of SpecPipeline.

\* C11: when the inbox of a recipient answers a delivery with 410 Gone, the
\* delivery step for that recipient does not end in an error.
C11_GoneIsSkipped ==
    lastDeliver.status = 410 => lastDeliver.raised = ""

Transient(raised) == raised \in {"TransientError", "TooManyAccessError"}

\* The classification of an answer: 429 and a timeout (0) are Transient, any
\* other HTTP error is raised as it is.
ClassifiedAsStated(status, raised) ==
    IF status \in {0, 429} THEN Transient(raised)
    ELSE status >= 400 => raised = "HTTPError"

\* The same, with a 410 that is skipped without an error.
ClassifiedSkippingGone(status, raised) ==
    IF status = 410 THEN raised = "" ELSE ClassifiedAsStated(status, raised)

DispatchClassified ==
    IF lastFailure.raised \in {"HTTPError", "Timeout"}
    THEN ClassifiedAsStated(lastFailure.status, lastCreate)
    ELSE lastFailure # NoFailure => Transient(lastCreate)

DeliveryClassified ==
    /\ lastDeliver.status # -1 =>
            ClassifiedAsStated(lastDeliver.status, lastDeliver.raised)
    /\ lastDeliver.store # "ok" => Transient(lastDeliver.raised)

\* A step of the expansion for an activity with one recipient: the request
\* for the recipient is made unless the table refused the lookup of the user,
\* or the recipient is excluded or was collected before.
ExpansionClassified(Classified(_, _)) ==
    expansions' = expansions + 1 =>
        LET asked == CHOOSE x \in lastExpand'.addresses : TRUE
        IN  IF lastExpand'.store # "ok" THEN Transient(lastExpand'.raised)
            ELSE asked \notin excluded \cup collected =>
                    Classified(RemoteDocument(asked).status, lastExpand'.raised)

\* C12 as stated: in inbound dispatch, recipient expansion and delivery every
\* 429, timeout and throughput-exceeded error surfaces as Transient, and
\* every other HTTP error propagates as a non-transient failure.
C12_AsStated ==
    [][DispatchClassified' /\ DeliveryClassified'
          /\ ExpansionClassified(ClassifiedAsStated)]_vars

\* C12: the same, except that a 410 met during recipient expansion is skipped
\* without an error.
C12_ErrorsClassified ==
    [][DispatchClassified' /\ DeliveryClassified'
          /\ ExpansionClassified(ClassifiedSkippingGone)]_vars

C12_Witness ==
    /\ lastCreate = "TooManyAccessError"
    /\ lastExpand.raised = "HTTPError"
    /\ lastExpand.addresses = {RemoteId("down")}
    /\ lastDeliver.status = 429
    /\ lastDeliver.raised = "TransientError"

----------------------------------------------------------------------------
\* Properties of SpecOutbox.

\* C13: a call of put_activity for an activity that is already recorded in the
\* object table ends with Duplicate and leaves exactly one record of that
\* activity, also when the call is repeated at a later time than the first.
C13_RepeatedPutIsDuplicate ==
    (lastPut.recorded /\ lastPut.raised \in {"", "DuplicateItemError"}) =>
        /\ lastPut.raised = "DuplicateItemError"
        /\ Cardinality(RecordsOf(activityItems, lastPut.id)) = 1

\* C19: after update_last_activity succeeded for a user, the record of the
\* user tells the time of that update as the time of the last activity; for
\* an account that is not in the user table the update ends with NotFound
\* (unless the table refuses the access) and no record is created.
C19_LastActivityIsTimeOfUpdate ==
    /\ (lastUpdate # NoUpdate /\ lastUpdate.raised = "") =>
           userTimes[lastUpdate.username].lastActivityAt = lastUpdate.at
    /\ lastUpdate.username = "nobody" =>
           /\ lastUpdate.raised \in {"NotFoundError", "TooManyAccessError"}
           /\ "nobody" \notin DOMAIN userTimes

\* C33: when put_activity recorded an activity of alice and the update of the
\* last activity of alice succeeded no earlier than the record was made, the
\* month of the record lies between the month of createdAt and the month of
\* lastActivityAt of alice, and the enumeration without a cursor yields the
\* record where it is public.
C33_PushedActivityIsEnumerated ==
    (/\ lastPut.raised = ""
     /\ lastUpdate.username = "alice"
     /\ lastUpdate.raised = "") =>
        \A it \in RecordsOf(activityItems, lastPut.id) :
           it.createdAt <= lastUpdate.at =>
              /\ format_yyyymm(userTimes["alice"].createdAt)
                    <= parse_activity_partition_key(it.pk)[2]
              /\ parse_activity_partition_key(it.pk)[2]
                    <= format_yyyymm(userTimes["alice"].lastActivityAt)
              /\ it.isPublic =>
                    it \in Range(enumerate_user_activities(
                                    activityItems, "alice", userTimes["alice"],
                                    NoKey, NoKey))

----------------------------------------------------------------------------
\* Properties of SpecPages.  A page is judged in the step that answers the
\* request, against the tables it was read from.

IsPage == lastPage.answer.type = "OrderedCollectionPage"

\* C15: a page request to the outbox, the followers or the replies of a post
\* that sets both before and after ends with BadRequest and returns no page
\* (where the user and the post exist).
C15_BothCursorsAreBadRequest ==
    (/\ lastPage.request.before # None
     /\ lastPage.request.after # None
     /\ lastPage.answer.raised # "NotFoundError") =>
        /\ lastPage.answer.raised = "BadRequestError"
        /\ ~IsPage

\* The public activities of a user, the latest first.
PublicActivities(username) ==
    Reverse(Sorted({ it \in activityItems :
                       /\ parse_activity_partition_key(it.pk)[1] = username
                       /\ it.isPublic },
                   KeyBefore))

FirstOutboxPage ==
    /\ lastPage.request.endpoint = "outbox"
    /\ lastPage.request.page
    /\ lastPage.request.before = None /\ lastPage.request.after = None
    /\ lastPage.request.username \in DOMAIN userTimes

TwentyMostRecent ==
    LET latest == Take(PublicActivities(lastPage.request.username),
                       DEFAULT_PAGE_SIZE)
    IN  /\ lastPage.answer.raised = ""
        /\ lastPage.answer.orderedItems = ActivityIds(latest)
        /\ lastPage.answer.next =
              Link("outbox", "before", serialize_activity_key(Last(latest)))
        /\ lastPage.answer.prev = NoLink

\* C16: where a user has more than 20 public activities, the first page of
\* the outbox holds the 20 most recent of them, the latest first, its next is
\* the outbox URI with before = the serialized key of the 20th item, and it
\* has no prev.
C16_FirstPageIsTwentyMostRecent ==
    (/\ FirstOutboxPage
     /\ Len(PublicActivities(lastPage.request.username)) > DEFAULT_PAGE_SIZE)
        => TwentyMostRecent

\* The answer to the request a link of the last page stands for.
Follow(link) ==
    LET asked == lastPage.request
        before == IF link.query = "before" THEN link.cursor ELSE None
        after == IF link.query = "after" THEN link.cursor ELSE None
    IN  IF asked.endpoint = "outbox"
        THEN get_outbox_activities(activityItems, userTimes, asked.username,
                                   TRUE, before, after)
        ELSE IF asked.endpoint = "followers"
        THEN get_followers(followerItems, userTimes, asked.username,
                           TRUE, before, after)
        ELSE get_post_replies(postItems, replyItems, asked.username, "P1",
                              TRUE, before, after)

NextLeadsToItems ==
    (IsPage /\ lastPage.answer.next # NoLink) =>
        Follow(lastPage.answer.next).orderedItems # <<>>

\* C17: a page of the outbox, the followers or the replies has a next only
\* where a subsequent page exists: the page next stands for holds items.
C17_NextOnlyBeforeMoreItems == NextLeadsToItems

\* C18: a page requested with a before cursor that holds no item has a prev
\* that points at the oldest sentinel, and no next.
C18_EmptyBeforePageHasOnlyPrev ==
    (/\ IsPage
     /\ lastPage.request.before # None
     /\ lastPage.answer.orderedItems = <<>>) =>
        /\ lastPage.answer.next = NoLink
        /\ lastPage.answer.prev.query = "after"
        /\ lastPage.answer.prev.cursor \in
              { OLDEST_SERIALIZED_KEY,
                serialize_activity_key(make_oldest_user_activity_key(
                    lastPage.request.username,
                    userTimes[lastPage.request.username])) }

\* C37: every next and every prev of a page of the outbox is the URI of the
\* outbox of the user that was asked for, followed by ?page=true and a
\* before or an after cursor.
C37_OutboxLinksStayInOutbox ==
    (IsPage /\ lastPage.request.endpoint = "outbox") =>
        \A link \in {lastPage.answer.next, lastPage.answer.prev} \ {NoLink} :
           /\ link.uri = "outbox"
           /\ link.query \in {"before", "after"}
           /\ link.cursor # None

----------------------------------------------------------------------------
\* Properties of SpecFinger.

\* The domain the server is configured with.
ConfiguredDomain ==
    IF lastFinger.domain_name # "" THEN lastFinger.domain_name
    ELSE lastFinger.apiDomainName

\* C20: a request whose resource is no acct: URI fails with BadRequest; one
\* for acct:{name}@{domain} fails with UnexpectedDomain where the domain is not
\* the configured one, and otherwise fails with NotFound exactly where the
\* user table has no user of that name, and returns the subject and the self
\* link of the user where it has one.
C20_WebFingerAnswersForUsers ==
    LET r == lastFinger.resource
        a == lastFinger.answer
    IN  /\ (r # <<>> /\ Head(r) # "acct:") => a.raised = "BadRequestError"
        /\ (Len(r) = 4 /\ r[1] = "acct:" /\ r[3] = "@") =>
               IF r[4] # ConfiguredDomain
               THEN a.raised = "UnexpectedDomainError"
               ELSE IF r[2] \notin DOMAIN userTimes
               THEN a.raised = "NotFoundError"
               ELSE /\ a.raised = ""
                    /\ a.subject = <<r[2], "@", r[4]>>
                    /\ a.href = make_user_id(ConfiguredDomain, r[2])

-----------------------------------------------------------------------------
\* Properties of SpecParallel.

\* The invocation of a process has saved the activity of its event.
HasSaved(p) ==
    \/ delivery[p].at = "saved"
    \/ \E post \in inboxPosts : post.by = p

\* The blob an invocation saves.
SavedBy(p) == deliver_activity(delivery[p].activity, "ok", 202).saved

-----------------------------------------------------------------------------
\* Properties of SpecSignature.

-----------------------------------------------------------------------------
\* Properties of SpecKeys.

============================================================================
